---- MODULE Spec2Model ----
(***************************************************************************)
(* Model of the ticket reconciliation and SLA core of outlook-exporter:    *)
(* the ticket store (core/db.py), the ingestion / recalculation /          *)
(* response passes (core/sla.py) and the spreadsheet reconciler            *)
(* (core/excel.py).                                                        *)
(*                                                                         *)
(* Conventions.  Instants are integer hours counted from Monday 00:00 of   *)
(* week 0.  SQL NULL / Python None is the value NULL for text columns and  *)
(* NoTime for timestamp columns.  Russian display labels are written in    *)
(* Latin transliteration.  A sender address is a sequence of characters so *)
(* that substring and suffix tests are computed, not assumed.              *)
(***************************************************************************)
EXTENDS Integers, Sequences, FiniteSets, TLC

VARIABLES
    tickets,    \* table `tickets`: sequence of rows, row i has id i
    events,     \* table `events`: sequence of audit rows
    sheet,      \* the spreadsheet file: [exists, rows]
    now,        \* wall clock, in hours
    ret,        \* what the last operation returned to its caller
    snap        \* history: table `tickets` as the last export wrote it to the sheet

vars == <<tickets, events, sheet, now, ret, snap>>

NULL == "NULL"
NoTime == 0 - 1
NoFile == [exists |-> FALSE, rows |-> <<>>]
NoId == 0              \* an unset id attribute (None); rowids start at 1
BlankNum == 0 - 1      \* a blank cell of a numeric column (pandas NaN)

Max(a, b) == IF a >= b THEN a ELSE b
Min(a, b) == IF a <= b THEN a ELSE b

(***************************************************************************)
(* Bounds of the model.                                                    *)
(***************************************************************************)
MaxOps == 4          \* operations in one behaviour (each takes one Step of time)
StartHour == 133     \* the first operation runs on Saturday 13:00 of week 0
Steps == {24}        \* hours that pass between two operations

(***************************************************************************)
(* Status model (core/sla.py).                                             *)
(***************************************************************************)
STATUS_NEW == "new"
STATUS_ASSIGNED == "assigned"
STATUS_RESPONDED == "responded"
STATUS_RESOLVED == "resolved"
STATUS_WAITING_CUSTOMER == "waiting_customer"
STATUS_TABLE == "table"
STATUS_OTIP == "otip"
STATUS_OVERDUE == "overdue"
STATUS_NOT_INTERESTING == "not_interesting"
STATUS_IN_TABLE == "in_table"

STATUS_LABELS_RU ==
    [c \in {STATUS_NEW, STATUS_ASSIGNED, STATUS_RESPONDED, STATUS_RESOLVED,
            STATUS_WAITING_CUSTOMER, STATUS_TABLE, STATUS_OTIP, STATUS_OVERDUE,
            STATUS_NOT_INTERESTING} |->
        CASE c = STATUS_NEW -> "Novoe"
          [] c = STATUS_ASSIGNED -> "V rabote"
          [] c = STATUS_RESPONDED -> "Dan otvet"
          [] c = STATUS_RESOLVED -> "Zakryto"
          [] c = STATUS_WAITING_CUSTOMER -> "Zhdem klienta"
          [] c = STATUS_TABLE -> "Trebuet dannyh/tablica"
          [] c = STATUS_OTIP -> "OTIP"
          [] c = STATUS_OVERDUE -> "Prosrochka SLA"
          [] c = STATUS_NOT_INTERESTING -> "Neinteresno/spam"]

CanonicalStatuses == DOMAIN STATUS_LABELS_RU

STATUS_ALIASES == [a \in {STATUS_IN_TABLE} |-> STATUS_TABLE]

STATUS_ORDER ==
    [c \in CanonicalStatuses \cup {STATUS_IN_TABLE} |->
        CASE c = STATUS_NEW -> 0
          [] c = STATUS_TABLE -> 1
          [] c = STATUS_IN_TABLE -> 1
          [] c = STATUS_ASSIGNED -> 2
          [] c = STATUS_RESPONDED -> 3
          [] c = STATUS_OVERDUE -> 4
          [] c = STATUS_RESOLVED -> 5
          [] c = STATUS_NOT_INTERESTING -> 6
          [] c = STATUS_WAITING_CUSTOMER -> 2
          [] c = STATUS_OTIP -> 2]

\* str.strip().lower() on the texts the model uses; every other text of the
\* model is already lower case without surrounding blanks.
StripLower(t) ==
    CASE t = "Novoe" -> "novoe"
      [] t = "V rabote" -> "v rabote"
      [] t = "Dan otvet" -> "dan otvet"
      [] t = "Zakryto" -> "zakryto"
      [] t = "Zhdem klienta" -> "zhdem klienta"
      [] t = "Trebuet dannyh/tablica" -> "trebuet dannyh/tablica"
      [] t = "OTIP" -> "otip"
      [] t = "Prosrochka SLA" -> "prosrochka sla"
      [] t = "Neinteresno/spam" -> "neinteresno/spam"
      [] t = "Resolved" -> "resolved"
      [] t = " closed " -> "closed"
      [] t = "Domain" -> "domain"
      [] t = " equals " -> "equals"
      [] OTHER -> t

\* re.sub(r"[^a-zа-яё 0-9_]+", "", t).strip() on the texts of the model
CleanText(t) ==
    CASE t = "closed!" -> "closed"
      [] t = "trebuet dannyh/tablica" -> "trebuet dannyhtablica"
      [] t = "neinteresno/spam" -> "neinteresnospam"
      [] t = "waiting-customer" -> "waitingcustomer"
      [] OTHER -> t

\* str.replace(" ", "_") on the texts of the model
Underscored(t) ==
    CASE t = "not interesting" -> "not_interesting"
      [] t = "waiting customer" -> "waiting_customer"
      [] t = "in table" -> "in_table"
      [] t = "v rabote" -> "v_rabote"
      [] t = "dan otvet" -> "dan_otvet"
      [] t = "zhdem klienta" -> "zhdem_klienta"
      [] t = "prosrochka sla" -> "prosrochka_sla"
      [] OTHER -> t

STATUS_TEXT_MAP ==
    [t \in {"novoe", "new", "vhod", "vhod_ru", "vhodyashchee",
            "in_table", "table", "tablica", "trebuet tablicy", "trebuet dannyh",
            "trebuet dannyh/tablica",
            "naznacheno_ru", "v rabote", "rabota", "pereslano", "forwarded", "forward",
            "assigned", "naznacheno",
            "otvet", "dan otvet", "responded", "ok", "ok_ru",
            "zakryto", "zakryt", "resolved", "done", "close", "closed",
            "neinteresno", "neinteresno/spam", "ne nash", "spam", "not_interesting",
            "prosrochka", "prosrochka sla", "overdue",
            "waiting_customer", "waiting", "waiting customer", "need more time",
            "more time", "nuzhno vremya", "zhdyom klienta", "zhdem klienta",
            "ozhidaem klienta", "zhdyom", "zhdem", "zhdyom otvet", "zhdem otvet",
            "otip", "otip_ru"} |->
        CASE t \in {"novoe", "new", "vhod", "vhod_ru", "vhodyashchee"} -> STATUS_NEW
          [] t \in {"in_table", "table", "tablica", "trebuet tablicy", "trebuet dannyh",
                    "trebuet dannyh/tablica"} -> STATUS_TABLE
          [] t \in {"naznacheno_ru", "v rabote", "rabota", "pereslano", "forwarded",
                    "forward", "assigned", "naznacheno"} -> STATUS_ASSIGNED
          [] t \in {"otvet", "dan otvet", "responded", "ok", "ok_ru"} -> STATUS_RESPONDED
          [] t \in {"zakryto", "zakryt", "resolved", "done", "close", "closed"}
                -> STATUS_RESOLVED
          [] t \in {"neinteresno", "neinteresno/spam", "ne nash", "spam",
                    "not_interesting"} -> STATUS_NOT_INTERESTING
          [] t \in {"prosrochka", "prosrochka sla", "overdue"} -> STATUS_OVERDUE
          [] t \in {"waiting_customer", "waiting", "waiting customer", "need more time",
                    "more time", "nuzhno vremya", "zhdyom klienta", "zhdem klienta",
                    "ozhidaem klienta", "zhdyom", "zhdem", "zhdyom otvet", "zhdem otvet"}
                -> STATUS_WAITING_CUSTOMER
          [] t \in {"otip", "otip_ru"} -> STATUS_OTIP]

MapGet(m, k) == IF k \in DOMAIN m THEN m[k] ELSE NULL

normalize_status_code(code) ==
    IF code = NULL THEN NULL
    ELSE LET code_l == StripLower(code)
         IN  IF code_l \in DOMAIN STATUS_ALIASES THEN STATUS_ALIASES[code_l] ELSE code_l

status_code_to_label(code) ==
    LET canonical == normalize_status_code(code)
    IN  IF canonical \in DOMAIN STATUS_LABELS_RU THEN STATUS_LABELS_RU[canonical]
        ELSE IF code = NULL THEN "" ELSE code

\* the lookup without strip().lower() and without the cleaned retries
status_text_to_code_exact(text) ==
    IF text = NULL \/ text = "" THEN NULL ELSE MapGet(STATUS_TEXT_MAP, text)

status_text_to_code(text) ==
    IF text = NULL \/ text = "" THEN NULL
    ELSE LET t == StripLower(text)
             t_clean == CleanText(t)
         IN  IF MapGet(STATUS_TEXT_MAP, t) # NULL THEN STATUS_TEXT_MAP[t]
             ELSE IF t \in DOMAIN STATUS_LABELS_RU THEN t
             ELSE IF t \in DOMAIN STATUS_ALIASES THEN STATUS_ALIASES[t]
             ELSE IF MapGet(STATUS_TEXT_MAP, t_clean) # NULL THEN STATUS_TEXT_MAP[t_clean]
             ELSE MapGet(STATUS_TEXT_MAP, Underscored(t_clean))

\* the derivation with new as the default
derive_base_status_new(has_forward, has_reply, requires_table, is_uninteresting) ==
    IF is_uninteresting THEN STATUS_NOT_INTERESTING
    ELSE IF requires_table THEN STATUS_TABLE
    ELSE IF has_reply THEN STATUS_RESPONDED
    ELSE IF has_forward THEN STATUS_ASSIGNED
    ELSE STATUS_NEW

derive_base_status(has_forward, has_reply, requires_table, is_uninteresting) ==
    IF is_uninteresting THEN STATUS_NOT_INTERESTING
    ELSE IF requires_table THEN STATUS_TABLE
    ELSE IF has_reply THEN STATUS_RESPONDED
    ELSE IF has_forward THEN STATUS_ASSIGNED
    ELSE STATUS_ASSIGNED

\* STATUS_ORDER.get(status, -1)
StatusRank(status) ==
    IF status \in DOMAIN STATUS_ORDER THEN STATUS_ORDER[status] ELSE 0 - 1

raise_status(current, candidate) ==
    IF StatusRank(candidate) > StatusRank(current) THEN candidate ELSE current

(***************************************************************************)
(* Business-hours calculator (core/sla.py).                                *)
(***************************************************************************)
DateOf(t) == t \div 24
Weekday(t) == DateOf(t) % 7

RECURSIVE BusinessHoursFrom(_, _, _, _, _, _)
BusinessHoursFrom(current, end, start_hour, end_hour, holidays, total) ==
    IF DateOf(current) > DateOf(end) THEN total
    ELSE LET is_weekend == Weekday(current) >= 5
             is_holiday == DateOf(current) \in holidays
             sh == Max(0, Min(23, start_hour))
             day_end == IF end_hour >= 24 THEN DateOf(current) * 24 + 24
                        ELSE DateOf(current) * 24 + Max(sh, end_hour)
             day_start == DateOf(current) * 24 + sh
             interval_start == Max(current, day_start)
             interval_end == Min(end, day_end)
             add == IF ~is_weekend /\ ~is_holiday /\ interval_end > interval_start
                    THEN interval_end - interval_start ELSE 0
         IN  BusinessHoursFrom((DateOf(current) + 1) * 24, end, start_hour, end_hour,
                               holidays, total + add)

\* the calculator without its holiday test
business_hours_skip_holidays(start, end, start_hour, end_hour, holiday_set) ==
    IF end <= start THEN 0
    ELSE Max(BusinessHoursFrom(start, end, start_hour, end_hour, {}, 0), 0)

business_hours_between(start, end, start_hour, end_hour, holidays) ==
    IF end <= start THEN 0
    ELSE Max(BusinessHoursFrom(start, end, start_hour, end_hour, holidays, 0), 0)

(***************************************************************************)
(* Configuration (config.py): the defaults of AppConfig, with the sender   *)
(* filter switched to domain mode so that the filter takes part.           *)
(***************************************************************************)
business_hours_start == 10
business_hours_end == 19
reminder_interval_hours == 24
holidays == {}
sender_filter_mode == "domain"
sender_filter_value == <<"e", ".", "c">>
sender_filter == <<"s", "@", "e", ".", "c">>

cfg == [sender_filter_mode |-> sender_filter_mode,
        sender_filter_value |-> sender_filter_value,
        sender_filter |-> sender_filter]

sla_by_priority ==
    [p \in {"p1", "p2", "p3", "p4"} |->
        CASE p = "p1" -> [first_response_hours |-> 4, resolution_hours |-> 24]
          [] p = "p2" -> [first_response_hours |-> 8, resolution_hours |-> 36]
          [] p = "p3" -> [first_response_hours |-> 16, resolution_hours |-> 48]
          [] p = "p4" -> [first_response_hours |-> 24, resolution_hours |-> 72]]

(***************************************************************************)
(* Sender filter (core/utils.py), on character sequences.                  *)
(***************************************************************************)
EndsWith(s, suffix) ==
    /\ Len(suffix) <= Len(s)
    /\ SubSeq(s, Len(s) - Len(suffix) + 1, Len(s)) = suffix

Contains(s, part) ==
    \E i \in 1..(Len(s) + 1) :
        /\ i + Len(part) - 1 <= Len(s)
        /\ SubSeq(s, i, i + Len(part) - 1) = part

\* str.lower() of one character of the model's addresses
LowerChar(ch) ==
    CASE ch = "U" -> "u"
      [] ch = "E" -> "e"
      [] ch = "C" -> "c"
      [] OTHER -> ch

LowerSeq(s) == [i \in 1..Len(s) |-> LowerChar(s[i])]

RECURSIVE StripSeq(_)
StripSeq(s) ==
    IF s = <<>> THEN s
    ELSE IF Head(s) = " " THEN StripSeq(Tail(s))
    ELSE IF s[Len(s)] = " " THEN StripSeq(SubSeq(s, 1, Len(s) - 1))
    ELSE s

\* None and "" are both the empty sequence (or the empty string for the mode)
_normalize_sender_filter(c) ==
    LET m == StripLower(IF c.sender_filter_mode = NULL THEN "" ELSE c.sender_filter_mode)
        mode == IF m = "" THEN "off" ELSE m
        value == StripSeq(LowerSeq(IF c.sender_filter_value # <<>> THEN c.sender_filter_value
                                   ELSE c.sender_filter))
    IN  IF mode = "domain" /\ value # <<>> /\ Head(value) = "@"
        THEN <<mode, Tail(value)>>
        ELSE <<mode, value>>

\* the filter whose domain mode is a plain suffix test
passes_sender_filter_suffix(sender, c) ==
    LET sender_l == LowerSeq(sender)
        mode == _normalize_sender_filter(c)[1]
        value == _normalize_sender_filter(c)[2]
    IN  IF mode = "off" \/ value = <<>> THEN TRUE
        ELSE IF mode = "contains" THEN Contains(sender_l, value)
        ELSE IF mode = "equals" THEN sender_l = value
        ELSE IF mode = "domain" THEN EndsWith(sender_l, value)
        ELSE TRUE

passes_sender_filter(sender, c) ==
    LET sender_l == LowerSeq(sender)
        mode == _normalize_sender_filter(c)[1]
        value == _normalize_sender_filter(c)[2]
    IN  IF mode = "off" \/ value = <<>> THEN TRUE
        ELSE IF mode = "contains" THEN Contains(sender_l, value)
        ELSE IF mode = "equals" THEN sender_l = value
        ELSE IF mode = "domain"
             THEN EndsWith(sender_l, <<"@">> \o value) \/ EndsWith(sender_l, <<".">> \o value)
        ELSE TRUE

(***************************************************************************)
(* The mailbox the passes read.  A subject is its count of leading         *)
(* Re:/Fw:/Fwd: prefixes and the text that follows them.                   *)
(***************************************************************************)
SenderIn == <<"u", "@", "e", ".", "c">>
SenderOut == <<"u", "@", "o", ".", "c">>

InboxMsg(eid, cls, recv, sender, conv, pre, text) ==
    [EntryID |-> eid, Class |-> cls, ReceivedTime |-> recv, sender |-> sender,
     ConversationID |-> conv, Subject |-> [pre |-> pre, text |-> text]]

M1 == InboxMsg("e1", 43, 10, SenderIn, "c1", 0, "s1")
M2 == InboxMsg("e2", 43, 10, SenderIn, NULL, 0, "s1")
M3 == InboxMsg("e3", 43, 114, SenderIn, NULL, 1, "s1")
M4 == InboxMsg("e4", 43, 11, SenderIn, "c1", 1, "s1")
M5 == InboxMsg("e5", 46, 10, SenderIn, "c2", 0, "s2")
M6 == InboxMsg("e6", 43, 10, SenderOut, "c3", 0, "s3")

\* what iter_messages may yield for one ingestion run
Batches == {<<M5, M1, M6>>, <<M1, M4>>, <<M2, M3>>}

normalize_subject(subject) == subject.text

\* the sent-item index of one run: thread key -> replies and forwards,
\* each a time-sorted list of <<sent_on, payload>>
NoSent == [replies |-> <<>>, forwards |-> <<>>]
SentIndexes ==
    { [k \in {"c1", "s1"} |-> NoSent],
      [k \in {"c1", "s1"} |->
          IF k = "c1" THEN [replies |-> <<<<9, "early">>, <<12, "answer">>>>,
                            forwards |-> <<<<11, "r1">>>>]
          ELSE [replies |-> <<>>, forwards |-> <<<<10, "r1">>>>]] }

RECURSIVE FindFrom(_, _, _)
FindFrom(evts, after_dt, i) ==
    IF i > Len(evts) THEN <<NoTime, NULL>>
    ELSE IF evts[i][1] >= after_dt THEN evts[i]
    ELSE FindFrom(evts, after_dt, i + 1)

_find_first_after(evts, after_dt) == FindFrom(evts, after_dt, 1)

compute_stable_id(conv_id, received, sender, subject, body) ==
    <<IF conv_id = NULL THEN "" ELSE conv_id, received, sender, subject, body>>

(***************************************************************************)
(* Ticket store (core/db.py).  A connection is the table it sees and the   *)
(* rowid of its last successful insert.                                    *)
(***************************************************************************)
UpdateRow(old, ticket) ==
    [ticket EXCEPT !.id = old.id,
                   !.first_received_utc = old.first_received_utc,
                   !.row_version = old.row_version + 1]

upsert_ticket(conn, ticket) ==
    LET tbl == conn.tbl
        hit == {i \in 1..Len(tbl) :
                    /\ ticket.conv_id # NULL
                    /\ tbl[i].conv_id = ticket.conv_id
                    /\ tbl[i].thread_key = ticket.thread_key}
        sameStable(i) == ticket.stable_id # NULL /\ tbl[i].stable_id = ticket.stable_id
    IN  IF hit # {}
        THEN LET i == CHOOSE j \in hit : TRUE
             IN  IF \E j \in 1..Len(tbl) : j # i /\ sameStable(j)
                 THEN [tbl |-> tbl, lastrowid |-> conn.lastrowid, error |-> TRUE, id |-> 0]
                 ELSE [tbl |-> [tbl EXCEPT ![i] = UpdateRow(tbl[i], ticket)],
                       lastrowid |-> conn.lastrowid, error |-> FALSE,
                       id |-> IF ticket.id = NoId THEN conn.lastrowid ELSE i]
        ELSE IF \E j \in 1..Len(tbl) : sameStable(j)
             THEN [tbl |-> tbl, lastrowid |-> conn.lastrowid, error |-> TRUE, id |-> 0]
             ELSE LET new == Len(tbl) + 1
                  IN  [tbl |-> Append(tbl, [ticket EXCEPT !.id = new]),
                       lastrowid |-> new, error |-> FALSE,
                       id |-> IF ticket.id = NoId \/ ticket.conv_id # NULL THEN new
                              ELSE ticket.id]

(***************************************************************************)
(* The clock: every operation takes one Step; a behaviour has MaxOps       *)
(* operations.                                                             *)
(***************************************************************************)
Advance == \E d \in Steps : now' = now + d
CanRun == now < StartHour + MaxOps * 24

(***************************************************************************)
(* Event log (core/db.py, log_event): INSERT OR IGNORE under               *)
(* UNIQUE(item_entry_id); SQL NULLs never collide.                         *)
(***************************************************************************)
\* faulty variant: a plain INSERT, without OR IGNORE
log_event_plain(evts, ticket_id, event_type, status_before, status_after, source, item_entry_id) ==
    Append(evts, [ticket_id |-> ticket_id, event_type |-> event_type,
                  status_before |-> status_before, status_after |-> status_after,
                  source |-> source, item_entry_id |-> item_entry_id])

log_event(evts, ticket_id, event_type, status_before, status_after, source, item_entry_id) ==
    IF item_entry_id # NULL /\ \E i \in 1..Len(evts) : evts[i].item_entry_id = item_entry_id
    THEN evts
    ELSE Append(evts, [ticket_id |-> ticket_id, event_type |-> event_type,
                       status_before |-> status_before, status_after |-> status_after,
                       source |-> source, item_entry_id |-> item_entry_id])

\* ensure_schema on an existing store: _migrate_statuses
MigrateRow(r) == IF r.status = STATUS_IN_TABLE THEN [r EXCEPT !.status = STATUS_TABLE] ELSE r
ensure_schema(tbl) == [i \in 1..Len(tbl) |-> MigrateRow(tbl[i])]

(***************************************************************************)
(* Ingestion engine (core/sla.py, ingest_range).                           *)
(***************************************************************************)
IngestRecord(msg, sent_idx, utcnow) ==
    LET conv_id == msg.ConversationID
        norm_subj == normalize_subject(msg.Subject)
        thread_key == StripLower(IF conv_id # NULL THEN conv_id ELSE norm_subj)
        sent_info == IF thread_key \in DOMAIN sent_idx THEN sent_idx[thread_key] ELSE NoSent
        first_reply == _find_first_after(sent_info.replies, msg.ReceivedTime)
        first_forward == _find_first_after(sent_info.forwards, msg.ReceivedTime)
        base_status == derive_base_status(first_forward[1] # NoTime,
                                          first_reply[1] # NoTime, FALSE, FALSE)
        last_status_utc == IF first_reply[1] # NoTime THEN first_reply[1]
                           ELSE IF first_forward[1] # NoTime THEN first_forward[1]
                           ELSE msg.ReceivedTime
    IN  [id |-> NoId,
         conv_id |-> conv_id,
         thread_key |-> thread_key,
         first_received_utc |-> msg.ReceivedTime,
         subject |-> msg.Subject,
         first_forward_to |-> first_forward[2],
         first_reply_utc |-> first_reply[1],
         responsible |-> first_forward[2],
         status |-> base_status,
         last_status_utc |-> last_status_utc,
         days_without_update |-> Max(0, DateOf(utcnow) - DateOf(last_status_utc)),
         overdue |-> FALSE,
         is_repeat |-> FALSE,
         last_reminder_utc |-> NoTime,
         priority |-> NULL,
         stable_id |-> compute_stable_id(conv_id, msg.ReceivedTime, msg.sender,
                                         norm_subj, "body"),
         last_updated_at |-> utcnow,
         last_updated_by |-> "ingest",
         comment |-> NULL,
         row_version |-> 1]

\* passes_sender_filter under the configuration, tabulated over the senders
\* of the mailbox
SenderPasses == [s \in {SenderIn, SenderOut} |-> passes_sender_filter(s, cfg)]

\* the messages the loop does not skip
Accepted(msg) ==
    /\ msg.Class = 43
    /\ msg.ReceivedTime # NoTime
    /\ SenderPasses[msg.sender]

\* the for-loop of ingest_range from message i on; fail_at is the position at
\* which enumeration or field extraction raises (0: nowhere)
RECURSIVE IngestLoop(_, _, _, _, _, _)
IngestLoop(conn, batch, i, sent_idx, fail_at, utcnow) ==
    IF i = fail_at THEN [conn EXCEPT !.raised = TRUE]
    ELSE IF i > Len(batch) THEN conn
    ELSE LET msg == batch[i]
         IN  IF ~Accepted(msg)
             THEN IngestLoop(conn, batch, i + 1, sent_idx, fail_at, utcnow)
             ELSE LET r == upsert_ticket(conn, IngestRecord(msg, sent_idx, utcnow))
                  IN  IF r.error THEN [conn EXCEPT !.raised = TRUE]
                      ELSE IngestLoop([tbl |-> r.tbl, lastrowid |-> r.lastrowid,
                                       processed |-> conn.processed + 1, raised |-> FALSE],
                                      batch, i + 1, sent_idx, fail_at, utcnow)

\* faulty variant: the except branch re-raises without conn.rollback()
IngestOutcomeNoRollback(batch, sent_idx, fail_at) ==
    LET r == IngestLoop([tbl |-> ensure_schema(tickets), lastrowid |-> 0, processed |-> 0,
                         raised |-> FALSE], batch, 1, sent_idx, fail_at, now)
    IN  [tbl |-> r.tbl, raised |-> r.raised,
         processed |-> IF r.raised THEN 0 ELSE r.processed, attempted |-> r.processed]

\* BEGIN ... commit, or rollback and re-raise; `attempted` counts the upserts
\* executed inside the transaction
IngestOutcome(batch, sent_idx, fail_at) ==
    LET start == ensure_schema(tickets)
        r == IngestLoop([tbl |-> start, lastrowid |-> 0, processed |-> 0,
                         raised |-> FALSE], batch, 1, sent_idx, fail_at, now)
    IN  IF r.raised
        THEN [tbl |-> start, raised |-> TRUE, processed |-> 0, attempted |-> r.processed]
        ELSE [tbl |-> r.tbl, raised |-> FALSE, processed |-> r.processed,
              attempted |-> r.processed]

\* `again` tells that the previous operation was a completed run over the
\* same batch, `fail_at` where the mailbox raised (0: nowhere)
ingest_range ==
    /\ CanRun
    /\ \E batch \in Batches, sent_idx \in SentIndexes :
         \E fail_at \in 0..(Len(batch) + 1) :
            LET out == IngestOutcome(batch, sent_idx, fail_at)
            IN  /\ tickets' = out.tbl
                /\ ret' = [op |-> "ingest_range", raised |-> out.raised,
                           value |-> out.processed, batch |-> batch,
                           attempted |-> out.attempted, fail_at |-> fail_at,
                           again |-> /\ ret.op = "ingest_range"
                                     /\ ~ret.raised
                                     /\ ret.batch = batch]
    /\ Advance
    /\ UNCHANGED <<events, sheet, snap>>

(***************************************************************************)
(* SLA recalculation (core/sla.py, recalc_open) and the recommendation     *)
(* refresh it ends with (core/recommend.py).  The connection of both is in *)
(* autocommit mode (db.connect: isolation_level=None) and neither issues   *)
(* BEGIN, so every UPDATE is durable as soon as it is executed.            *)
(***************************************************************************)
SlaFor(priority) ==
    LET p == IF priority = NULL THEN "p3" ELSE priority
    IN  IF p \in DOMAIN sla_by_priority THEN sla_by_priority[p] ELSE sla_by_priority["p3"]

\* faulty variant: the first-response test made whether or not a reply exists
OverdueRuleIgnoreReply(first_reply_utc, bus_hours_since_recv, fhours, rhours) ==
    bus_hours_since_recv >= fhours \/ bus_hours_since_recv >= rhours

\* the overdue flag of a swept ticket
OverdueRule(first_reply_utc, bus_hours_since_recv, fhours, rhours) ==
    IF first_reply_utc = NoTime /\ bus_hours_since_recv >= fhours THEN TRUE
    ELSE bus_hours_since_recv >= rhours

\* faulty variant: `new` listed among the statuses the flag does not escalate
EscalatedStatusKeepsNew(current_status, overdue, bus_hours_since_recv, rhours) ==
    LET status1 == IF overdue /\ current_status \notin
                        {STATUS_OVERDUE, STATUS_RESPONDED, STATUS_ASSIGNED, STATUS_NEW}
                   THEN STATUS_OVERDUE ELSE current_status
    IN  IF status1 \in {STATUS_RESPONDED, STATUS_ASSIGNED}
           /\ bus_hours_since_recv >= rhours
        THEN STATUS_OVERDUE ELSE status1

\* the status of a swept ticket
EscalatedStatus(current_status, overdue, bus_hours_since_recv, rhours) ==
    LET status1 == IF overdue /\ current_status \notin
                                    {STATUS_OVERDUE, STATUS_RESPONDED, STATUS_ASSIGNED}
                   THEN STATUS_OVERDUE ELSE current_status
    IN  IF status1 \in {STATUS_RESPONDED, STATUS_ASSIGNED}
           /\ bus_hours_since_recv >= rhours
        THEN STATUS_OVERDUE ELSE status1

\* faulty variant: no branch for waiting_customer
RecalcRowNoPause(r, utcnow) ==
    LET current_status == normalize_status_code(r.status)
        days == Max(0, DateOf(utcnow) - DateOf(r.last_status_utc))
        fhours == SlaFor(r.priority).first_response_hours
        rhours == SlaFor(r.priority).resolution_hours
        bus_hours_since_recv ==
            business_hours_between(r.first_received_utc, utcnow, business_hours_start,
                                   business_hours_end, holidays)
        overdue == OverdueRule(r.first_reply_utc, bus_hours_since_recv, fhours, rhours)
    IN  [r EXCEPT !.days_without_update = days, !.overdue = overdue,
                  !.status = EscalatedStatus(current_status, overdue,
                                             bus_hours_since_recv, rhours),
                  !.last_status_utc = utcnow]

RecalcRow(r, utcnow) ==
    LET current_status == normalize_status_code(r.status)
        days == Max(0, DateOf(utcnow) - DateOf(r.last_status_utc))
        fhours == SlaFor(r.priority).first_response_hours
        rhours == SlaFor(r.priority).resolution_hours
        bus_hours_since_recv ==
            business_hours_between(r.first_received_utc, utcnow, business_hours_start,
                                   business_hours_end, holidays)
        overdue == OverdueRule(r.first_reply_utc, bus_hours_since_recv, fhours, rhours)
    IN  IF current_status = STATUS_WAITING_CUSTOMER
        THEN [r EXCEPT !.days_without_update = days, !.overdue = FALSE]
        ELSE [r EXCEPT !.days_without_update = days, !.overdue = overdue,
                       !.status = EscalatedStatus(current_status, overdue,
                                                  bus_hours_since_recv, rhours),
                       !.last_status_utc = utcnow]

\* a selection without the WHERE clause
RecalcSelectedEvery(tbl) == 1..Len(tbl)

RecalcSelected(tbl) ==
    {i \in 1..Len(tbl) : tbl[i].status \notin
        {STATUS_RESOLVED, STATUS_NOT_INTERESTING, STATUS_TABLE, STATUS_IN_TABLE}}

\* the k-th selected row, in rowid order
RECURSIVE NthOf(_, _)
NthOf(S, k) ==
    LET m == CHOOSE x \in S : \A y \in S : x <= y
    IN  IF k = 1 THEN m ELSE NthOf(S \ {m}, k - 1)

\* rows 1..done of the sweep have been updated
RecalcSweep(tbl, done, utcnow) ==
    LET sel == RecalcSelected(tbl)
        upd == {NthOf(sel, k) : k \in 1..done}
    IN  [i \in 1..Len(tbl) |-> IF i \in upd THEN RecalcRow(tbl[i], utcnow) ELSE tbl[i]]

\* update_recommendations: a ticket is a repeat when another ticket's text is
\* similar; texts are similar here when the subjects (prefixes stripped) agree
RecommendRow(tbl, i) ==
    [tbl[i] EXCEPT !.is_repeat =
        \E j \in 1..Len(tbl) : j # i /\ normalize_subject(tbl[j].subject)
                                          = normalize_subject(tbl[i].subject)]

\* the rows in the order update_recommendations visits them: newest first
RECURSIVE RecommendOrder(_, _)
RecommendOrder(tbl, S) ==
    IF S = {} THEN <<>>
    ELSE LET m == CHOOSE i \in S : \A j \in S :
                    \/ tbl[i].first_received_utc > tbl[j].first_received_utc
                    \/ tbl[i].first_received_utc = tbl[j].first_received_utc /\ i <= j
         IN  <<m>> \o RecommendOrder(tbl, S \ {m})

\* the first `done` rows have been updated, each in its own transaction (the
\* connection is in autocommit mode); without sklearn nothing is done
update_recommendations(tbl, available, done) ==
    IF ~available THEN tbl
    ELSE LET ord == RecommendOrder(tbl, 1..Len(tbl))
             upd == {ord[k] : k \in 1..done}
         IN  [i \in 1..Len(tbl) |-> IF i \in upd THEN RecommendRow(tbl, i) ELSE tbl[i]]

RecommendOutcomes == {"unavailable", "ok", "raise"}

\* an enrichment that raises is taken for a failure of the sweep
RecalcResultPropagating(n, rec) ==
    [op |-> "recalc_open", raised |-> rec = "raise",
     value |-> IF rec = "raise" THEN 0 ELSE n]

\* the try/except around update_recommendations, then `return updated`
RecalcResult(n, rec) == [op |-> "recalc_open", raised |-> FALSE, value |-> n]

\* fail_at > 0: the sweep raises at its fail_at-th row and the enrichment is
\* not reached; otherwise the sweep commits and update_recommendations ends
\* as rec says, after `done` rows
RecalcBody(fail_at, rec, done) ==
    /\ LET tbl == ensure_schema(tickets)
           n == Cardinality(RecalcSelected(tbl))
       IN  IF fail_at > 0
           THEN /\ tickets' = RecalcSweep(tbl, fail_at - 1, now)
                /\ ret' = [op |-> "recalc_open", raised |-> TRUE, value |-> 0]
           ELSE /\ tickets' = update_recommendations(RecalcSweep(tbl, n, now),
                                                     rec # "unavailable", done)
                /\ ret' = RecalcResult(n, rec)
    /\ Advance
    /\ UNCHANGED <<events, sheet>>

RecalcPass ==
    /\ \E fail_at \in 0..Cardinality(RecalcSelected(ensure_schema(tickets))),
          rec \in RecommendOutcomes, done \in 0..Len(tickets) :
          /\ fail_at > 0 => rec = "unavailable"
          /\ rec = "ok" => done = Len(tickets)
          /\ rec = "unavailable" => done = 0
          /\ RecalcBody(fail_at, rec, done)
    /\ UNCHANGED snap

recalc_open == CanRun /\ RecalcPass

(***************************************************************************)
(* Response processor (core/sla.py, process_responses).  A body is a       *)
(* sequence of lines; a line is a "/cmd arg" directive, a blank line, a    *)
(* quoted line or plain text, and carries in `phrase` the text a           *)
(* "status: ..." phrase on it would hand to the regular expression.        *)
(***************************************************************************)
Cmd(c, a) == [kind |-> "cmd", cmd |-> c, arg |-> a, phrase |-> NULL]
Blank == [kind |-> "blank", cmd |-> NULL, arg |-> NULL, phrase |-> NULL]
Quote(ph) == [kind |-> "quote", cmd |-> NULL, arg |-> NULL, phrase |-> ph]

RespMsg(eid, conv, text, vr, body) ==
    [EntryID |-> eid, Class |-> 43, ConversationID |-> conv,
     Subject |-> [pre |-> 1, text |-> text], VotingResponse |-> vr, Body |-> body]

R1 == RespMsg("x1", "c1", "s1", "zakryt", <<>>)
R2 == RespMsg("x2", NULL, "s1", "",
              <<Cmd("status", "waiting customer"), Cmd("owner", "r2"), Cmd("comment", "hi")>>)
R3 == RespMsg("x3", "c1", "s1", "maybe", <<Cmd("status", "foo")>>)
R4 == RespMsg("x4", "c1", "s1", "", <<Cmd("prio", "p1"), Blank, Quote("overdue")>>)

RespBatches == {<<R1, R2>>, <<R3, R4>>}

RECURSIVE ParseFrom(_, _, _)
ParseFrom(body, i, commands) ==
    IF i > Len(body) THEN commands
    ELSE IF body[i].kind \in {"blank", "quote"} THEN commands
    ELSE IF body[i].kind # "cmd" THEN ParseFrom(body, i + 1, commands)
    ELSE ParseFrom(body, i + 1,
                   [c \in DOMAIN commands \cup {body[i].cmd} |->
                        IF c = body[i].cmd THEN body[i].arg ELSE commands[c]])

_parse_command_block(body) == ParseFrom(body, 1, [c \in {} |-> NULL])

\* re.search(r"(status|...)\s*[:=]\s*([\w\s-]+)", subj + body): group 2 of the
\* first match, NULL when nothing matches
StatusPhrase(body) ==
    LET hits == {i \in 1..Len(body) : body[i].phrase # NULL}
    IN  IF hits = {} THEN NULL ELSE body[CHOOSE i \in hits : \A j \in hits : i <= j].phrase

Truthy(v) == v # NULL /\ v # ""

_find_ticket_for_message(tbl, conv_id, norm_subj) ==
    LET latest(S) == CHOOSE i \in S : \A j \in S :
                        \/ tbl[i].first_received_utc > tbl[j].first_received_utc
                        \/ tbl[i].first_received_utc = tbl[j].first_received_utc /\ i <= j
        byConv == {i \in 1..Len(tbl) : Truthy(conv_id) /\ tbl[i].conv_id = conv_id}
        byKey == {i \in 1..Len(tbl) : tbl[i].thread_key = norm_subj}
    IN  IF byConv # {} THEN latest(byConv)
        ELSE IF byKey # {} THEN latest(byKey)
        ELSE 0

\* one message of the loop; st is [tbl, evts, updated, calls, raised], calls
\* counting the log_event calls made
ProcessMessage(st, msg, utcnow) ==
    LET commands == _parse_command_block(msg.Body)
        voted == status_text_to_code(msg.VotingResponse)
        commanded == IF voted = NULL /\ "status" \in DOMAIN commands
                     THEN status_text_to_code(commands["status"]) ELSE voted
        status == IF commanded = NULL /\ StatusPhrase(msg.Body) # NULL
                  THEN status_text_to_code(StatusPhrase(msg.Body)) ELSE commanded
        priority == IF Truthy(MapGet(commands, "prio")) THEN commands["prio"]
                    ELSE MapGet(commands, "priority")
        owner == IF Truthy(MapGet(commands, "owner")) THEN commands["owner"]
                 ELSE MapGet(commands, "responsible")
        comment == MapGet(commands, "comment")
        id == _find_ticket_for_message(st.tbl, msg.ConversationID,
                                       StripLower(normalize_subject(msg.Subject)))
        row == st.tbl[id]
        withStatus == IF Truthy(status)
                      THEN [row EXCEPT !.status = status, !.days_without_update = 0,
                                       !.overdue = FALSE]
                      ELSE row
        withOwner == IF Truthy(owner) THEN [withStatus EXCEPT !.responsible = owner]
                     ELSE withStatus
        withPrio == IF Truthy(priority) THEN [withOwner EXCEPT !.priority = priority]
                    ELSE withOwner
        updated == [withPrio EXCEPT !.last_status_utc = utcnow,
                                    !.row_version = row.row_version + 1]
        status_after == IF Truthy(status) THEN status ELSE row.status
        ev1 == log_event(st.evts, id, "mail_response", row.status, status_after, "mail",
                         msg.EntryID)
        ev2 == IF Truthy(comment)
               THEN log_event(ev1, id, "comment", row.status, status_after, "mail",
                              msg.EntryID)
               ELSE ev1
    IN  IF msg.Class # 43 \/ id = 0 THEN st
        ELSE IF ~Truthy(status) /\ ~Truthy(owner) /\ ~Truthy(priority) THEN st
        ELSE [st EXCEPT !.tbl[id] = updated, !.evts = ev2, !.updated = @ + 1,
                        !.calls = @ + (IF Truthy(comment) THEN 2 ELSE 1)]

RECURSIVE ProcessLoop(_, _, _, _, _)
ProcessLoop(st, batch, i, fail_at, utcnow) ==
    IF i = fail_at THEN [st EXCEPT !.raised = TRUE]
    ELSE IF i > Len(batch) THEN st
    ELSE ProcessLoop(ProcessMessage(st, batch[i], utcnow), batch, i + 1, fail_at, utcnow)

process_responses ==
    /\ CanRun
    /\ \E batch \in RespBatches :
         \E fail_at \in 0..Len(batch) :
            LET out == ProcessLoop([tbl |-> ensure_schema(tickets), evts |-> events,
                                    updated |-> 0, calls |-> 0, raised |-> FALSE],
                                   batch, 1, fail_at, now)
            IN  /\ tickets' = out.tbl
                /\ events' = out.evts
                /\ ret' = [op |-> "process_responses", raised |-> out.raised,
                           value |-> IF out.raised THEN 0 ELSE out.updated,
                           batch |-> batch, calls |-> out.calls,
                           logged |-> Len(out.evts) - Len(events)]
    /\ Advance
    /\ UNCHANGED <<sheet, snap>>

(***************************************************************************)
(* Spreadsheet reconciler (core/excel.py).  A sheet row holds the cells    *)
(* as written; a blank cell is "".  pandas reads a blank cell back as NaN, *)
(* which is truthy and prints as "nan".                                    *)
(***************************************************************************)
OrEmpty(v) == IF v = NULL THEN "" ELSE v

ExportRow(r) ==
    [ticket_id |-> r.id,
     row_version |-> r.row_version,
     status |-> status_code_to_label(r.status),
     responsible |-> OrEmpty(r.responsible),
     priority |-> OrEmpty(r.priority),
     comment |-> OrEmpty(r.comment),
     overdue |-> IF r.overdue THEN "Da" ELSE "Net",
     last_updated_at |-> r.last_updated_at]

\* fetch_tickets: ORDER BY first_received_utc DESC (rowid order among equals)
RECURSIVE OrderDesc(_, _)
OrderDesc(tbl, S) ==
    IF S = {} THEN <<>>
    ELSE LET m == CHOOSE i \in S : \A j \in S :
                    \/ tbl[i].first_received_utc > tbl[j].first_received_utc
                    \/ tbl[i].first_received_utc = tbl[j].first_received_utc /\ i <= j
         IN  <<tbl[m]>> \o OrderDesc(tbl, S \ {m})

fetch_tickets(tbl) == OrderDesc(tbl, 1..Len(tbl))

export_excel ==
    /\ CanRun
    /\ LET rows == fetch_tickets(ensure_schema(tickets))
       IN  \E locked \in BOOLEAN :
             /\ sheet' = IF locked /\ sheet.exists THEN sheet
                         ELSE [exists |-> TRUE,
                               rows |-> [i \in 1..Len(rows) |-> ExportRow(rows[i])]]
             /\ ret' = [op |-> "export_excel", raised |-> FALSE,
                        value |-> IF locked /\ sheet.exists THEN "pending" ELSE "target"]
    /\ tickets' = ensure_schema(tickets)
    /\ snap' = IF sheet' = sheet /\ sheet.exists THEN snap ELSE ensure_schema(tickets)
    /\ Advance
    /\ UNCHANGED events

\* the operator edits one unlocked cell of the sheet (status, responsible,
\* priority or comment) and saves the file
SheetEdits ==
    {<<"status", "Zakryto">>, <<"status", "">>, <<"status", "postponed">>,
     <<"responsible", "r2">>, <<"priority", "p1">>}

EditCell(row, e) ==
    CASE e[1] = "status" -> [row EXCEPT !.status = e[2]]
      [] e[1] = "responsible" -> [row EXCEPT !.responsible = e[2]]
      [] e[1] = "priority" -> [row EXCEPT !.priority = e[2]]
      [] e[1] = "comment" -> [row EXCEPT !.comment = e[2]]

EditSheet ==
    /\ CanRun
    /\ sheet.exists
    /\ \E i \in 1..Len(sheet.rows), e \in SheetEdits :
         /\ EditCell(sheet.rows[i], e) # sheet.rows[i]
         /\ sheet' = [sheet EXCEPT !.rows[i] = EditCell(sheet.rows[i], e)]
    /\ ret' = [op |-> "edit_sheet"]
    /\ Advance
    /\ UNCHANGED <<tickets, events, snap>>

\* str(cell).strip() of a cell read by pandas
CellStr(v) == IF v = "" THEN "nan" ELSE v
\* `x or None` on the stripped text
OrNone(v) == IF v = "" THEN NULL ELSE v

IsNumber(v) == v # BlankNum

\* faulty variant: the UPDATE leaves row_version and last_updated_at alone
SyncApplyKeepsVersion(r, status, responsible, priority, comment, utcnow) ==
    [r EXCEPT !.status = status,
              !.responsible = OrNone(responsible),
              !.priority = OrNone(priority),
              !.comment = OrNone(comment),
              !.last_status_utc = utcnow,
              !.last_updated_by = "excel"]

SyncApply(r, status, responsible, priority, comment, utcnow) ==
    [r EXCEPT !.status = status,
              !.responsible = OrNone(responsible),
              !.priority = OrNone(priority),
              !.comment = OrNone(comment),
              !.overdue = IF status \in {"resolved", "table", "in_table", "not_interesting"}
                          THEN FALSE ELSE r.overdue,
              !.row_version = r.row_version + 1,
              !.last_status_utc = utcnow,
              !.last_updated_at = utcnow,
              !.last_updated_by = "excel"]

\* faulty variant: the comparison of the two versions inverted
VersionConflictInverted(current, excel_rv) == current.row_version < excel_rv

\* the optimistic-concurrency test of a row against the store
VersionConflict(current, excel_rv) == current.row_version # excel_rv

\* one row of the loop; st is [tbl, evts, updated, conflicts, missing,
\* conflict_rows, raised]
SyncRow(st, row, utcnow) ==
    LET ticket_id == row.ticket_id
        excel_rv == row.row_version
        status_display == CellStr(row.status)
        coded == status_text_to_code(status_display)
        status == IF coded # NULL THEN coded ELSE status_display
        responsible == CellStr(row.responsible)
        priority == CellStr(row.priority)
        comment == CellStr(row.comment)
        excel_updated_dt == row.last_updated_at
        current == st.tbl[ticket_id]
        db_updated_dt == current.last_updated_at
    IN  IF ~IsNumber(ticket_id) THEN st
        ELSE IF ~IsNumber(excel_rv) THEN [st EXCEPT !.raised = TRUE]
        ELSE IF ticket_id \notin 1..Len(st.tbl) THEN [st EXCEPT !.missing = @ + 1]
        ELSE IF db_updated_dt # NoTime /\ excel_updated_dt # NoTime
                /\ db_updated_dt > excel_updated_dt
        THEN [st EXCEPT !.conflicts = @ + 1,
                        !.conflict_rows = Append(@, [ticket_id |-> ticket_id,
                                                     field |-> "last_updated_at",
                                                     excel |-> excel_updated_dt,
                                                     db |-> db_updated_dt,
                                                     resolution |-> "skip (db newer)"]),
                        !.evts = log_event(@, ticket_id, "excel_conflict", NULL, status,
                                           "excel", NULL)]
        ELSE IF VersionConflict(current, excel_rv)
        THEN [st EXCEPT !.conflicts = @ + 1,
                        !.conflict_rows = Append(@, [ticket_id |-> ticket_id,
                                                     field |-> "row_version",
                                                     excel |-> excel_rv,
                                                     db |-> current.row_version,
                                                     resolution |-> "skip"]),
                        !.evts = log_event(@, ticket_id, "excel_conflict", NULL, status,
                                           "excel", NULL)]
        ELSE [st EXCEPT !.tbl[ticket_id] = SyncApply(current, status, responsible,
                                                     priority, comment, utcnow),
                        !.evts = log_event(@, ticket_id, "excel_sync", NULL, status,
                                           "excel", NULL),
                        !.updated = @ + 1]

RECURSIVE SyncLoop(_, _, _, _)
SyncLoop(st, df, i, utcnow) ==
    IF i > Len(df) \/ st.raised THEN st
    ELSE SyncLoop(SyncRow(st, df[i], utcnow), df, i + 1, utcnow)

sync_from_excel ==
    /\ CanRun
    /\ IF ~sheet.exists
       THEN /\ tickets' = ensure_schema(tickets)
            /\ events' = events
            /\ ret' = [op |-> "sync_from_excel", raised |-> FALSE, updated |-> 0,
                       conflicts |-> 0, missing |-> 0, conflict_rows |-> <<>>]
       ELSE LET out == SyncLoop([tbl |-> ensure_schema(tickets), evts |-> events,
                                 updated |-> 0, conflicts |-> 0, missing |-> 0,
                                 conflict_rows |-> <<>>, raised |-> FALSE],
                                sheet.rows, 1, now)
            IN  /\ tickets' = out.tbl
                /\ events' = out.evts
                /\ ret' = [op |-> "sync_from_excel", raised |-> out.raised,
                           updated |-> out.updated, conflicts |-> out.conflicts,
                           missing |-> out.missing, conflict_rows |-> out.conflict_rows]
    /\ Advance
    /\ UNCHANGED <<sheet, snap>>

(***************************************************************************)
(* Notification planner (core/sla.py) and the send-overdue task            *)
(* (ui/app.py, _send_overdue).                                             *)
(***************************************************************************)
quiet_hours_start == 22
quiet_hours_end == 8

is_quiet_hours(start, end, hour) ==
    IF start < end THEN start <= hour /\ hour < end
    ELSE hour >= start \/ hour < end

\* the decision with the interval test after the quiet-hours test
PlanBucketQuietFirst(r, utcnow) ==
    IF ~Truthy(r.responsible) THEN "skip_no_responsible"
    ELSE IF is_quiet_hours(quiet_hours_start, quiet_hours_end, utcnow % 24)
    THEN "skip_quiet"
    ELSE IF r.last_reminder_utc # NoTime
            /\ utcnow - r.last_reminder_utc < reminder_interval_hours
    THEN "skip_interval"
    ELSE "send"

PlanBucket(r, utcnow) ==
    IF ~Truthy(r.responsible) THEN "skip_no_responsible"
    ELSE IF r.last_reminder_utc # NoTime
            /\ utcnow - r.last_reminder_utc < reminder_interval_hours
    THEN "skip_interval"
    ELSE IF is_quiet_hours(quiet_hours_start, quiet_hours_end, utcnow % 24)
    THEN "skip_quiet"
    ELSE "send"

EmptyPlan ==
    [send |-> <<>>, skip_interval |-> <<>>, skip_quiet |-> <<>>,
     skip_no_responsible |-> <<>>]

\* the for-loop of overdue_plan over the selected rows, from row i on
RECURSIVE PlanLoop(_, _, _, _)
PlanLoop(plan, rows, i, utcnow) ==
    IF i > Len(rows) THEN plan
    ELSE LET bucket == PlanBucket(rows[i], utcnow)
         IN  PlanLoop([plan EXCEPT ![bucket] = Append(@, rows[i])], rows, i + 1, utcnow)

\* overdue_plan: the four lists of rows, for the tickets the query selects
overdue_plan(tbl, utcnow) ==
    LET selected(r) == r.status \in {STATUS_OVERDUE, STATUS_RESPONDED}
    IN  PlanLoop(EmptyPlan, SelectSeq(tbl, selected), 1, utcnow)

mark_reminder_sent(r, utcnow) ==
    [r EXCEPT !.last_reminder_utc = utcnow, !.row_version = r.row_version + 1]

send_overdue ==
    /\ CanRun
    /\ LET plan == overdue_plan(tickets, now)
           send == {plan.send[k].id : k \in DOMAIN plan.send}
       IN  /\ tickets' = [i \in 1..Len(tickets) |->
                            IF tickets[i].id \in send
                            THEN mark_reminder_sent(tickets[i], now)
                            ELSE tickets[i]]
           /\ ret' = [op |-> "send_overdue", raised |-> FALSE,
                      value |-> Cardinality(send), plan |-> plan]
    /\ Advance
    /\ UNCHANGED <<events, sheet, snap>>

Init ==
    /\ tickets = <<>>
    /\ events = <<>>
    /\ sheet = NoFile
    /\ now = StartHour
    /\ ret = [op |-> "init"]
    /\ snap = <<>>

Next ==
    \/ ingest_range
    \/ recalc_open
    \/ process_responses
    \/ export_excel
    \/ EditSheet
    \/ sync_from_excel
    \/ send_overdue

Spec == Init /\ [][Next]_vars

\* the store under mailbox passes alone: no spreadsheet edit, mail command or
\* reminder in between
NextPasses ==
    \/ ingest_range
    \/ recalc_open

SpecPasses == Init /\ [][NextPasses]_vars

(***************************************************************************)
(* Calls of upsert_ticket on one autocommit connection, whose rowid of the *)
(* last insert is kept in ret.lastrowid.                                   *)
(***************************************************************************)
StoreConvs == {"c1", "c2", NULL}
StoreReceipts == {10, 11}
\* the id attribute of the argument: unset, or the id of the first row
StoreIds == {NoId, 1}

StoreTicket(conv, received, id) ==
    [IngestRecord(InboxMsg("e1", 43, received, SenderIn, conv, 0, "s1"), NoSent, received)
        EXCEPT !.id = id,
               !.status = IF received = 10 THEN STATUS_ASSIGNED ELSE STATUS_RESOLVED,
               !.responsible = IF received = 10 THEN NULL ELSE "r1"]

InitStore ==
    /\ tickets = <<>>
    /\ events = <<>>
    /\ sheet = NoFile
    /\ now = StartHour
    /\ ret = [op |-> "init", lastrowid |-> 0]
    /\ snap = <<>>

UpsertCall ==
    /\ CanRun
    /\ \E conv \in StoreConvs, received \in StoreReceipts, id \in StoreIds :
         LET ticket == StoreTicket(conv, received, id)
             r == upsert_ticket([tbl |-> tickets, lastrowid |-> ret.lastrowid], ticket)
         IN  /\ tickets' = r.tbl
             /\ ret' = [op |-> "upsert_ticket", raised |-> r.error, value |-> r.id,
                        lastrowid |-> r.lastrowid, ticket |-> ticket]
    /\ Advance
    /\ UNCHANGED <<events, sheet, snap>>

SpecStore == InitStore /\ [][UpsertCall]_vars

(***************************************************************************)
(* Mail transmission (core/outlook.py, core/notify.py, core/sla.py).  A    *)
(* function gives the calls it makes on mail items, in order: "Send",      *)
(* "Display", or "Preview" for the log line of a preview.  c is the        *)
(* configuration's safe_mode and allow_send.                               *)
(***************************************************************************)
\* the sender that consults safe_mode and safe_only but not allow_send
send_mail_unless_safe(c, safe_only, send_fails) ==
    IF c.safe_mode \/ safe_only THEN <<"Display">>
    ELSE IF send_fails THEN <<"Send", "Display">>
    ELSE <<"Send">>

send_mail(c, safe_only, send_fails) ==
    IF c.safe_mode \/ safe_only \/ ~c.allow_send THEN <<"Display">>
    ELSE IF send_fails THEN <<"Send", "Display">>
    ELSE <<"Send">>

\* item_fails: GetItemFromID or Reply raises; every exception is re-raised
reply_overdue(c, item_fails, send_fails) ==
    LET safe_only == ~c.allow_send
    IN  IF item_fails THEN [calls |-> <<>>, raised |-> TRUE]
        ELSE IF c.safe_mode \/ safe_only THEN [calls |-> <<"Display">>, raised |-> FALSE]
        ELSE [calls |-> <<"Send">>, raised |-> send_fails]

send_overdue_mail(c, preview_only, quiet, allowed, original_entry_id, item_fails, send_fails) ==
    IF preview_only \/ c.safe_mode \/ ~c.allow_send \/ quiet THEN <<"Preview">>
    ELSE IF ~allowed THEN <<>>
    ELSE LET reply == reply_overdue(c, item_fails, send_fails)
         IN  IF original_entry_id /\ ~reply.raised THEN reply.calls
             ELSE (IF original_entry_id THEN reply.calls ELSE <<>>)
                  \o send_mail(c, FALSE, send_fails)

\* item_fails: msg.Reply() raises, which the function swallows
_send_confirmation(c, updates, item_fails) ==
    IF ~updates \/ item_fails THEN <<>>
    ELSE IF c.safe_mode \/ ~c.allow_send THEN <<"Display">>
    ELSE <<"Send">>

(***************************************************************************)
(* Calls of the pure functions of core/sla.py and core/utils.py, each on   *)
(* arguments drawn from the sets below; ret records the one call of a      *)
(* behaviour.                                                              *)
(***************************************************************************)
BhDates == 0..8                      \* Monday of one week to Tuesday of the next
BhClock == {0, 9, 10, 12, 19, 23}
BhInstants == {d * 24 + h : d \in BhDates, h \in BhClock}
BhWindows == {w \in {0, 9, 10, 19, 23} \X {0, 9, 10, 19, 23} : w[1] <= w[2]}
BhHolidays == {{}, {1}, {4}, {0, 7}}

InitFn ==
    /\ tickets = <<>>
    /\ events = <<>>
    /\ sheet = NoFile
    /\ now = StartHour
    /\ ret = [op |-> "init"]
    /\ snap = <<>>

CallBusinessHours ==
    /\ ret.op = "init"
    /\ \E start \in BhInstants, end \in BhInstants, w \in BhWindows, hol \in BhHolidays :
         ret' = [op |-> "business_hours_between", start |-> start, end |-> end,
                 start_hour |-> w[1], end_hour |-> w[2], holidays |-> hol,
                 value |-> business_hours_between(start, end, w[1], w[2], hol)]
    /\ UNCHANGED <<tickets, events, sheet, now, snap>>

\* status_text_to_code(status_code_to_label(code))
CallLabelRoundTrip ==
    /\ ret.op = "init"
    /\ \E code \in CanonicalStatuses :
         LET label == status_code_to_label(code)
         IN  ret' = [op |-> "status_text_to_code", code |-> code, label |-> label,
                     value |-> status_text_to_code(label)]
    /\ UNCHANGED <<tickets, events, sheet, now, snap>>

CallDeriveBaseStatus ==
    /\ ret.op = "init"
    /\ \E has_forward \in BOOLEAN, has_reply \in BOOLEAN,
          requires_table \in BOOLEAN, is_uninteresting \in BOOLEAN :
         ret' = [op |-> "derive_base_status", has_forward |-> has_forward,
                 has_reply |-> has_reply, requires_table |-> requires_table,
                 is_uninteresting |-> is_uninteresting,
                 value |-> derive_base_status(has_forward, has_reply, requires_table,
                                              is_uninteresting)]
    /\ UNCHANGED <<tickets, events, sheet, now, snap>>

\* the TicketRecord ingest_range builds for one message
CallIngestRecord ==
    /\ ret.op = "init"
    /\ \E msg \in {M1, M2, M3, M4, M5, M6}, sent_idx \in SentIndexes :
         ret' = [op |-> "ingest_record", msg |-> msg, sent_idx |-> sent_idx,
                 value |-> IngestRecord(msg, sent_idx, now)]
    /\ UNCHANGED <<tickets, events, sheet, now, snap>>

FilterSenders ==
    {<<>>, <<"u", "@", "e", ".", "c">>, <<"U", "@", "E", ".", "C">>,
     <<"u", "@", "m", ".", "e", ".", "c">>, <<"u", "@", "o", "e", ".", "c">>,
     <<"u", "@", "o", ".", "c">>}
FilterModes == {"", "off", "contains", "equals", " equals ", "domain", "Domain"}
FilterValues ==
    {<<>>, <<"e", ".", "c">>, <<"@", "e", ".", "c">>, <<"E", ".", "C">>,
     <<" ", "e", ".", "c", " ">>, <<"u", "@", "e", ".", "c">>, <<"e">>}
FilterLegacy == {<<>>, <<"u", "@", "o", ".", "c">>}

CallSenderFilter ==
    /\ ret.op = "init"
    /\ \E sender \in FilterSenders, mode \in FilterModes, value \in FilterValues,
          legacy \in FilterLegacy :
         LET c == [sender_filter_mode |-> mode, sender_filter_value |-> value,
                   sender_filter |-> legacy]
         IN  ret' = [op |-> "passes_sender_filter", sender |-> sender, cfg |-> c,
                     mode |-> _normalize_sender_filter(c)[1],
                     filter |-> _normalize_sender_filter(c)[2],
                     value |-> passes_sender_filter(sender, c)]
    /\ UNCHANGED <<tickets, events, sheet, now, snap>>

SendConfigs == [safe_mode : BOOLEAN, allow_send : BOOLEAN]

CallSendMail ==
    /\ ret.op = "init"
    /\ \E c \in SendConfigs, safe_only \in BOOLEAN, send_fails \in BOOLEAN :
         ret' = [op |-> "send_mail", cfg |-> c, preview |-> safe_only,
                 value |-> send_mail(c, safe_only, send_fails)]
    /\ UNCHANGED <<tickets, events, sheet, now, snap>>

CallReplyOverdue ==
    /\ ret.op = "init"
    /\ \E c \in SendConfigs, item_fails \in BOOLEAN, send_fails \in BOOLEAN :
         ret' = [op |-> "reply_overdue", cfg |-> c, preview |-> FALSE,
                 value |-> reply_overdue(c, item_fails, send_fails).calls]
    /\ UNCHANGED <<tickets, events, sheet, now, snap>>

CallSendOverdueMail ==
    /\ ret.op = "init"
    /\ \E c \in SendConfigs, preview_only \in BOOLEAN, quiet \in BOOLEAN,
          allowed \in BOOLEAN, original_entry_id \in BOOLEAN, item_fails \in BOOLEAN,
          send_fails \in BOOLEAN :
         ret' = [op |-> "send_overdue_mail", cfg |-> c, preview |-> preview_only,
                 quiet |-> quiet, allowed |-> allowed,
                 original_entry_id |-> original_entry_id,
                 value |-> send_overdue_mail(c, preview_only, quiet, allowed,
                                             original_entry_id, item_fails, send_fails)]
    /\ UNCHANGED <<tickets, events, sheet, now, snap>>

CallSendConfirmation ==
    /\ ret.op = "init"
    /\ \E c \in SendConfigs, updates \in BOOLEAN, item_fails \in BOOLEAN :
         ret' = [op |-> "_send_confirmation", cfg |-> c, preview |-> FALSE,
                 value |-> _send_confirmation(c, updates, item_fails)]
    /\ UNCHANGED <<tickets, events, sheet, now, snap>>

QuietHours == 0..23

CallQuietHours ==
    /\ ret.op = "init"
    /\ \E start \in QuietHours, end \in QuietHours, hour \in QuietHours :
         ret' = [op |-> "is_quiet_hours", start |-> start, end |-> end, hour |-> hour,
                 value |-> is_quiet_hours(start, end, hour)]
    /\ UNCHANGED <<tickets, events, sheet, now, snap>>

NextFn ==
    \/ CallBusinessHours
    \/ CallQuietHours
    \/ CallSendMail
    \/ CallReplyOverdue
    \/ CallSendOverdueMail
    \/ CallSendConfirmation
    \/ CallSenderFilter
    \/ CallLabelRoundTrip
    \/ CallDeriveBaseStatus
    \/ CallIngestRecord

SpecFn == InitFn /\ [][NextFn]_vars

(***************************************************************************)
(* One sweep of recalc_open over a store holding one seeded ticket, for    *)
(* every receipt instant of a week.  snap keeps the table as it was before *)
(* the sweep.                                                              *)
(***************************************************************************)
SeedStatuses == CanonicalStatuses
SeedPriorities == {NULL, "p1", "p3", "p4", "p9"}
ReceiptInstants == 0..167
ReceiptSample == {10, 57, 110, 130}
SweepDelays == {6, 30, 120, 200}

SeedTicket(status, priority, received, reply, overdue) ==
    [id |-> 1,
     conv_id |-> "c1",
     thread_key |-> "c1",
     first_received_utc |-> received,
     subject |-> [pre |-> 0, text |-> "s1"],
     first_forward_to |-> NULL,
     first_reply_utc |-> reply,
     responsible |-> IF status = STATUS_NEW THEN NULL ELSE "r1",
     status |-> status,
     last_status_utc |-> received,
     days_without_update |-> 0,
     overdue |-> overdue,
     is_repeat |-> FALSE,
     last_reminder_utc |-> NoTime,
     priority |-> priority,
     stable_id |-> NULL,
     last_updated_at |-> received,
     last_updated_by |-> "test-all",
     comment |-> NULL,
     row_version |-> 1]

InitRecalc ==
    /\ \E status \in SeedStatuses, priority \in SeedPriorities,
          received \in ReceiptInstants, delay \in SweepDelays,
          replied \in BOOLEAN, overdue \in BOOLEAN :
          /\ delay = 120 \/ received \in ReceiptSample
          /\ tickets = <<SeedTicket(status, priority, received,
                                          IF replied THEN received + 1 ELSE NoTime,
                                          overdue)>>
          /\ now = received + delay
    /\ events = <<>>
    /\ sheet = NoFile
    /\ ret = [op |-> "init"]
    /\ snap = tickets

RecalcOnce == ret.op = "init" /\ RecalcPass

SpecRecalc == InitRecalc /\ [][RecalcOnce]_vars

(***************************************************************************)
(* One call of sync_from_excel over a store of two tickets and a sheet of  *)
(* one or two rows as an operator may have left it; snap is the store      *)
(* before the call.                                                        *)
(***************************************************************************)
SyncIds == {1, 2, 7, BlankNum}            \* 7: no such ticket
SyncVersions == {1, 2, BlankNum}
SyncStatusCells == {"Zakryto", "postponed"}
SyncStamps == {5, 10}                     \* the store's rows were updated at 10

SyncStore ==
    <<[SeedTicket(STATUS_OVERDUE, NULL, 10, NoTime, TRUE) EXCEPT !.id = 1],
      [SeedTicket(STATUS_ASSIGNED, NULL, 10, NoTime, FALSE)
          EXCEPT !.id = 2, !.conv_id = "c2", !.thread_key = "c2", !.row_version = 2]>>

SheetRow(ticket_id, row_version, status, stamp) ==
    [ExportRow(SyncStore[1]) EXCEPT !.ticket_id = ticket_id, !.row_version = row_version,
                                    !.status = status, !.last_updated_at = stamp]

SyncRows ==
    {SheetRow(t, v, s, u) : t \in SyncIds, v \in SyncVersions, s \in SyncStatusCells,
                            u \in SyncStamps}

InitSync ==
    /\ tickets = SyncStore
    /\ events = <<>>
    /\ \/ sheet = NoFile
       \/ \E r1 \in SyncRows : sheet = [exists |-> TRUE, rows |-> <<r1>>]
       \/ \E r1 \in SyncRows, r2 \in SyncRows : sheet = [exists |-> TRUE, rows |-> <<r1, r2>>]
    /\ now = StartHour
    /\ ret = [op |-> "init"]
    /\ snap = tickets

SyncOnce == ret.op = "init" /\ sync_from_excel

SpecSync == InitSync /\ [][SyncOnce]_vars

(***************************************************************************)
(* The files of an export (core/excel.py, _atomic_replace).  In this       *)
(* specification `sheet` holds the directory of the target: the content of *)
(* the target, of its _pending sidecar, of its .bak copy and of the        *)
(* temporary file, a workbook being named by the instant it was built at.  *)
(***************************************************************************)
NoWorkbook == 0 - 1

\* src.replace(dst) raises PermissionError when dst exists and is held open;
\* copy2 and unlink failures are swallowed by the code
_atomic_replace(dir, dst_locked, pending_locked, copy_fails, unlink_fails) ==
    LET backed == IF dir.target # NoWorkbook /\ ~copy_fails
                  THEN [dir EXCEPT !.bak = dir.target] ELSE dir
    IN  IF ~(dst_locked /\ dir.target # NoWorkbook)
        THEN [dir |-> [backed EXCEPT !.target = dir.tmp, !.tmp = NoWorkbook],
              raised |-> FALSE, value |-> "target"]
        ELSE IF ~(pending_locked /\ dir.pending # NoWorkbook)
        THEN [dir |-> [backed EXCEPT !.pending = dir.tmp, !.tmp = NoWorkbook],
              raised |-> FALSE, value |-> "pending"]
        ELSE [dir |-> IF unlink_fails THEN backed ELSE [backed EXCEPT !.tmp = NoWorkbook],
              raised |-> TRUE, value |-> NULL]

InitFile ==
    /\ tickets = <<>>
    /\ events = <<>>
    /\ sheet = [target |-> NoWorkbook, pending |-> NoWorkbook, bak |-> NoWorkbook,
                tmp |-> NoWorkbook]
    /\ now = StartHour
    /\ ret = [op |-> "init"]
    /\ snap = <<>>

\* export_excel from the temporary workbook on
ExportFile ==
    /\ CanRun
    /\ \E dst_locked \in BOOLEAN, pending_locked \in BOOLEAN, copy_fails \in BOOLEAN,
          unlink_fails \in BOOLEAN :
         LET out == _atomic_replace([sheet EXCEPT !.tmp = now], dst_locked, pending_locked,
                                    copy_fails, unlink_fails)
         IN  /\ sheet' = out.dir
             /\ ret' = [op |-> "_atomic_replace", raised |-> out.raised,
                        value |-> out.value, workbook |-> now,
                        dst_locked |-> dst_locked, pending_locked |-> pending_locked,
                        copy_fails |-> copy_fails, unlink_fails |-> unlink_fails,
                        replace_failed |-> dst_locked /\ sheet.target # NoWorkbook]
    /\ Advance
    /\ UNCHANGED <<tickets, events, snap>>

\* the operator deletes the sidecar after merging it by hand
RemovePending ==
    /\ CanRun
    /\ sheet.pending # NoWorkbook
    /\ sheet' = [sheet EXCEPT !.pending = NoWorkbook]
    /\ ret' = [op |-> "remove_pending"]
    /\ Advance
    /\ UNCHANGED <<tickets, events, snap>>

NextFile == ExportFile \/ RemovePending

SpecFile == InitFile /\ [][NextFile]_vars

(***************************************************************************)
(* process_responses over one delivered message and one seeded ticket of   *)
(* conversation c1, and once more over the same message (a redelivery).    *)
(* A body is the directive lines before the first blank or quoted line     *)
(* followed by what comes after.                                           *)
(***************************************************************************)
RespVotes == {"", "zakryt", "maybe"}
RespHeads ==
    {<<>>,
     <<Cmd("status", "waiting customer")>>,
     <<Cmd("status", "foo")>>,
     <<Cmd("owner", "r2")>>,
     <<Cmd("prio", "p1")>>,
     <<Cmd("owner", "r2"), Cmd("prio", "p1")>>,
     <<Cmd("comment", "hi")>>,
     <<Cmd("status", "waiting customer"), Cmd("comment", "hi")>>,
     <<Cmd("owner", "r2"), Cmd("comment", "hi")>>}
RespTails ==
    {<<>>,
     <<Blank, Cmd("status", "otip")>>,
     <<Quote(NULL), Cmd("status", "otip")>>,
     <<Quote("overdue")>>}
RespConvs == {"c1", "c9"}
RespSeedStatuses == {STATUS_ASSIGNED, STATUS_OVERDUE}

InitResp ==
    /\ \E status \in RespSeedStatuses :
         tickets = <<[SeedTicket(status, NULL, 10, NoTime, status = STATUS_OVERDUE)
                         EXCEPT !.days_without_update = 3]>>
    /\ events = <<>>
    /\ sheet = NoFile
    /\ now = StartHour
    /\ ret = [op |-> "init"]
    /\ snap = <<>>

RespDeliver(conv, vote, head, tail, round) ==
    LET msg == RespMsg("x1", conv, "s1", vote, head \o tail)
        out == ProcessLoop([tbl |-> ensure_schema(tickets), evts |-> events,
                            updated |-> 0, calls |-> 0, raised |-> FALSE],
                           <<msg>>, 1, 0, now)
    IN  /\ tickets' = out.tbl
        /\ events' = out.evts
        /\ ret' = [op |-> "process_responses", raised |-> FALSE, value |-> out.updated,
                   batch |-> <<msg>>, calls |-> out.calls,
                   logged |-> Len(out.evts) - Len(events),
                   conv |-> conv, vote |-> vote, head |-> head, tail |-> tail,
                   round |-> round]
        /\ UNCHANGED <<sheet, now, snap>>

RespFirst ==
    /\ ret.op = "init"
    /\ \E conv \in RespConvs, vote \in RespVotes, head \in RespHeads, tail \in RespTails :
         RespDeliver(conv, vote, head, tail, 1)

RespAgain ==
    /\ ret.op = "process_responses"
    /\ ret.round = 1
    /\ RespDeliver(ret.conv, ret.vote, ret.head, ret.tail, 2)

NextResp == RespFirst \/ RespAgain

SpecResp == InitResp /\ [][NextResp]_vars

(***************************************************************************)
(* One sweep over a store of two tickets, with the outcome of               *)
(* update_recommendations recorded: snap holds the store and the clock     *)
(* before the call and how the enrichment ended ("skipped" when the sweep  *)
(* itself raised before reaching it).                                      *)
(***************************************************************************)
EnrichStatuses ==
    {STATUS_NEW, STATUS_RESPONDED, STATUS_WAITING_CUSTOMER, STATUS_RESOLVED, STATUS_IN_TABLE}
EnrichSubjects == {"s1", "s2"}
EnrichDelays == {6, 30, 200}

EnrichTicket(id, status, text, received) ==
    [SeedTicket(status, NULL, received, NoTime, FALSE)
        EXCEPT !.id = id,
               !.conv_id = IF id = 1 THEN "c1" ELSE "c2",
               !.thread_key = IF id = 1 THEN "c1" ELSE "c2",
               !.subject = [pre |-> 0, text |-> text]]

InitEnrich ==
    /\ \E s1 \in EnrichStatuses, s2 \in EnrichStatuses, text \in EnrichSubjects,
          delay \in EnrichDelays :
          /\ tickets = <<EnrichTicket(1, s1, "s1", 10), EnrichTicket(2, s2, text, 11)>>
          /\ now = 11 + delay
    /\ events = <<>>
    /\ sheet = NoFile
    /\ ret = [op |-> "init"]
    /\ snap = [before |-> tickets, utcnow |-> now, enrichment |-> "skipped"]

EnrichOnce ==
    /\ ret.op = "init"
    /\ \E fail_at \in 0..Cardinality(RecalcSelected(ensure_schema(tickets))),
          rec \in RecommendOutcomes, done \in 0..Len(tickets) :
          /\ fail_at > 0 => rec = "unavailable"
          /\ rec = "ok" => done = Len(tickets)
          /\ rec = "unavailable" => done = 0
          /\ RecalcBody(fail_at, rec, done)
          /\ snap' = [snap EXCEPT !.enrichment = IF fail_at > 0 THEN "skipped" ELSE rec]

SpecEnrich == InitEnrich /\ [][EnrichOnce]_vars

(***************************************************************************)
(* Consecutive sweeps, a day apart, over one seeded ticket.  snap holds,   *)
(* per ticket, the time its status last changed in fact.                   *)
(***************************************************************************)
InitSweeps ==
    /\ \E status \in SeedStatuses, priority \in SeedPriorities, replied \in BOOLEAN :
         tickets = <<SeedTicket(status, priority, 10,
                                IF replied THEN 11 ELSE NoTime, FALSE)>>
    /\ events = <<>>
    /\ sheet = NoFile
    /\ now = 16
    /\ ret = [op |-> "init"]
    /\ snap = <<10>>

SweepAgain ==
    /\ CanRun
    /\ \E fail_at \in 0..Cardinality(RecalcSelected(ensure_schema(tickets))),
          rec \in RecommendOutcomes, done \in 0..Len(tickets) :
          /\ fail_at > 0 => rec = "unavailable"
          /\ rec = "ok" => done = Len(tickets)
          /\ rec = "unavailable" => done = 0
          /\ RecalcBody(fail_at, rec, done)
    /\ snap' = [i \in 1..Len(tickets) |->
                   IF tickets'[i].status # tickets[i].status THEN now ELSE snap[i]]

SpecSweeps == InitSweeps /\ [][SweepAgain]_vars

(***************************************************************************)
(* Acquisition and release of the mail client (core/outlook.py).  A call   *)
(* is described by the COM initialisations (pythoncom.CoInitialize) and    *)
(* teardowns (pythoncom.CoUninitialize) it makes; CoInitialize itself is   *)
(* taken not to fail.  snap counts both over the whole behaviour.          *)
(***************************************************************************)
\* try: CoInitialize, Dispatch, GetNamespace ... finally: CoUninitialize
detect_outlook_environment(classic) ==
    [classic_available |-> classic, inits |-> 1, teardowns |-> 1]

\* dispatch_fails, namespace_fails: Dispatch or GetNamespace raises here
\* although it succeeded in detect_outlook_environment
__enter__(classic, dispatch_fails, namespace_fails) ==
    LET env == detect_outlook_environment(classic)
    IN  IF ~env.classic_available
        THEN [raised |-> TRUE, inits |-> env.inits, teardowns |-> env.teardowns]
        ELSE [raised |-> dispatch_fails \/ namespace_fails,
              inits |-> env.inits + 1, teardowns |-> env.teardowns]

__exit__(client) == [client EXCEPT !.teardowns = @ + 1]

\* `with factory(cfg) as outlook: body`: __exit__ runs when the body ends,
\* normally or by an exception, and not when __enter__ raises
WithClient(classic, dispatch_fails, namespace_fails, body_raises) ==
    LET entered == __enter__(classic, dispatch_fails, namespace_fails)
    IN  IF entered.raised
        THEN [acquired |-> FALSE, raised |-> TRUE,
              inits |-> entered.inits, teardowns |-> entered.teardowns]
        ELSE LET left == __exit__(entered)
             IN  [acquired |-> TRUE, raised |-> body_raises,
                  inits |-> left.inits, teardowns |-> left.teardowns]

ClientStep(op, use) ==
    /\ ret' = [op |-> op, acquired |-> use.acquired, raised |-> use.raised,
               inits |-> use.inits, teardowns |-> use.teardowns]
    /\ snap' = [inits |-> snap.inits + use.inits,
                teardowns |-> snap.teardowns + use.teardowns]
    /\ Advance
    /\ UNCHANGED <<tickets, events, sheet>>

ClientIngest ==
    /\ CanRun
    /\ \E classic \in BOOLEAN, dispatch_fails \in BOOLEAN, namespace_fails \in BOOLEAN,
       body_raises \in BOOLEAN :
       ClientStep("ingest_range",
                  WithClient(classic, dispatch_fails, namespace_fails, body_raises))

ClientResponses ==
    /\ CanRun
    /\ \E classic \in BOOLEAN, dispatch_fails \in BOOLEAN, namespace_fails \in BOOLEAN,
       body_raises \in BOOLEAN :
       ClientStep("process_responses",
                  WithClient(classic, dispatch_fails, namespace_fails, body_raises))

\* preview: the function returns before the `with` (preview, safe mode,
\* sending off, quiet hours or no allowed recipient)
ClientOverdueMail ==
    /\ CanRun
    /\ \E preview \in BOOLEAN, classic \in BOOLEAN, dispatch_fails \in BOOLEAN,
       namespace_fails \in BOOLEAN, body_raises \in BOOLEAN :
       ClientStep("send_overdue_mail",
                  IF preview
                  THEN [acquired |-> FALSE, raised |-> FALSE, inits |-> 0, teardowns |-> 0]
                  ELSE WithClient(classic, dispatch_fails, namespace_fails, body_raises))

InitClient ==
    /\ tickets = <<>>
    /\ events = <<>>
    /\ sheet = NoFile
    /\ now = StartHour
    /\ ret = [op |-> "init"]
    /\ snap = [inits |-> 0, teardowns |-> 0]

NextClient ==
    \/ ClientIngest
    \/ ClientResponses
    \/ ClientOverdueMail

SpecClient == InitClient /\ [][NextClient]_vars

(***************************************************************************)
(* Repeated passes of sync_from_excel over one spreadsheet file that       *)
(* nobody edits between the passes.  The update stamp of a row may be      *)
(* blank, which leaves the version token as the only guard.                *)
(***************************************************************************)
ResyncStamps == {NoTime, 10}

ResyncRows ==
    {SheetRow(t, v, s, u) : t \in {1, 2}, v \in SyncVersions, s \in SyncStatusCells,
                            u \in ResyncStamps}

InitResync ==
    /\ tickets = SyncStore
    /\ events = <<>>
    /\ \/ \E r1 \in ResyncRows : sheet = [exists |-> TRUE, rows |-> <<r1>>]
       \/ \E r1 \in ResyncRows, r2 \in ResyncRows :
             sheet = [exists |-> TRUE, rows |-> <<r1, r2>>]
    /\ now = StartHour
    /\ ret = [op |-> "init"]
    /\ snap = tickets

SyncPass == sheet.exists /\ sync_from_excel

SpecResync == InitResync /\ [][SyncPass]_vars

(***************************************************************************)
(* Reminders within one working day: the passes of core/sla.py and the     *)
(* send-overdue task run two hours apart, so that several of them fall     *)
(* inside one reminder interval.  snap lists the calls of                  *)
(* mark_reminder_sent made so far, each with its ticket and time; ret      *)
(* keeps the list as it was when the last plan was computed.               *)
(***************************************************************************)
ThrottleHours == {57, 59, 61, 63}       \* Wednesday 09:00 to 15:00

ThrottleRet(op, plan) == [op |-> op, at |-> now, marks |-> snap, plan |-> plan]

ThrottleIngest ==
    /\ now \in ThrottleHours
    /\ \E batch \in Batches, sent_idx \in SentIndexes :
         \E fail_at \in 0..(Len(batch) + 1) :
            tickets' = IngestOutcome(batch, sent_idx, fail_at).tbl
    /\ ret' = ThrottleRet("ingest_range", EmptyPlan)
    /\ now' = now + 2
    /\ UNCHANGED <<events, sheet, snap>>

ThrottleRecalc ==
    /\ now \in ThrottleHours
    /\ LET tbl == ensure_schema(tickets)
       IN  tickets' = RecalcSweep(tbl, Cardinality(RecalcSelected(tbl)), now)
    /\ ret' = ThrottleRet("recalc_open", EmptyPlan)
    /\ now' = now + 2
    /\ UNCHANGED <<events, sheet, snap>>

ThrottleResponses ==
    /\ now \in ThrottleHours
    /\ \E batch \in RespBatches :
         LET out == ProcessLoop([tbl |-> ensure_schema(tickets), evts |-> events,
                                 updated |-> 0, calls |-> 0, raised |-> FALSE],
                                batch, 1, 0, now)
         IN  /\ tickets' = out.tbl
             /\ events' = out.evts
    /\ ret' = ThrottleRet("process_responses", EmptyPlan)
    /\ now' = now + 2
    /\ UNCHANGED <<sheet, snap>>

\* the send-overdue task: overdue_plan, then mark_reminder_sent for every
\* ticket of the send bucket
ThrottleSend ==
    /\ now \in ThrottleHours
    /\ LET plan == overdue_plan(tickets, now)
           send == {plan.send[k].id : k \in DOMAIN plan.send}
       IN  /\ tickets' = [i \in 1..Len(tickets) |->
                            IF tickets[i].id \in send
                            THEN mark_reminder_sent(tickets[i], now)
                            ELSE tickets[i]]
           /\ ret' = ThrottleRet("send_overdue", plan)
           /\ snap' = snap \o [k \in DOMAIN plan.send |->
                                  [id |-> plan.send[k].id, at |-> now]]
    /\ now' = now + 2
    /\ UNCHANGED <<events, sheet>>

InitThrottle ==
    /\ tickets = <<>>
    /\ events = <<>>
    /\ sheet = NoFile
    /\ now = 57
    /\ ret = [op |-> "init"]
    /\ snap = <<>>

NextThrottle ==
    \/ ThrottleIngest
    \/ ThrottleRecalc
    \/ ThrottleResponses
    \/ ThrottleSend

SpecThrottle == InitThrottle /\ [][NextThrottle]_vars

(***************************************************************************)
(* One call of overdue_plan over a store of two seeded tickets.            *)
(***************************************************************************)
PlanStatuses == {STATUS_OVERDUE, STATUS_RESPONDED, STATUS_ASSIGNED, STATUS_RESOLVED}
PlanOwners == {NULL, "", "r1"}
PlanReminderAges == {NoTime, 1, 23, 24, 30}     \* hours since the last reminder
PlanInstants == {48 + h : h \in {7, 8, 12, 21, 22, 23}}

PlanTicket(id, status, owner, age, utcnow) ==
    [SeedTicket(status, NULL, 10, NoTime, status = STATUS_OVERDUE)
        EXCEPT !.id = id,
               !.conv_id = IF id = 1 THEN "c1" ELSE "c2",
               !.thread_key = IF id = 1 THEN "c1" ELSE "c2",
               !.responsible = owner,
               !.last_reminder_utc = IF age = NoTime THEN NoTime ELSE utcnow - age]

InitPlan ==
    /\ \E utcnow \in PlanInstants :
         /\ now = utcnow
         /\ \E s1 \in PlanStatuses, s2 \in PlanStatuses, o1 \in PlanOwners,
               o2 \in PlanOwners, a1 \in PlanReminderAges, a2 \in PlanReminderAges :
              tickets = <<PlanTicket(1, s1, o1, a1, utcnow),
                          PlanTicket(2, s2, o2, a2, utcnow)>>
    /\ events = <<>>
    /\ sheet = NoFile
    /\ ret = [op |-> "init"]
    /\ snap = <<>>

PlanOnce ==
    /\ ret.op = "init"
    /\ ret' = [op |-> "overdue_plan", value |-> overdue_plan(tickets, now)]
    /\ UNCHANGED <<tickets, events, sheet, now, snap>>

SpecPlan == InitPlan /\ [][PlanOnce]_vars

(***************************************************************************)
(* A sweep of recalc_open over one seeded ticket, then the overdue_plan    *)
(* computed from the store the sweep left.                                 *)
(***************************************************************************)
DuePlan ==
    /\ ret.op = "recalc_open"
    /\ ~ret.raised
    /\ ret' = [op |-> "overdue_plan", value |-> overdue_plan(tickets, now)]
    /\ UNCHANGED <<tickets, events, sheet, now, snap>>

NextDue ==
    \/ RecalcOnce
    \/ DuePlan

SpecDue == InitRecalc /\ [][NextDue]_vars

(***************************************************************************)
(* Mailbox enumeration (core/outlook.py, iter_messages; core/utils.py,     *)
(* safe_call).  The mailbox is the list of messages of the window; a       *)
(* fetched item is a list of one message, or the empty list for None.      *)
(* fault_at is the fetch (1: GetFirst, k: the k-th GetNext call) at which  *)
(* the mail client fails on every attempt; 0: no fetch fails.              *)
(***************************************************************************)
\* safe_call: the call's result, or `default` once the retries are used up
safe_call(fails, result, default) == IF fails THEN default ELSE result

\* GetFirst / GetNext on the restricted items: None when exhausted
FetchItem(mailbox, i) == IF i <= Len(mailbox) THEN <<mailbox[i]>> ELSE <<>>

\* `while item: yield item; item = safe_call(GetNext)`
RECURSIVE IterFrom(_, _, _)
IterFrom(mailbox, i, fault_at) ==
    LET item == safe_call(i = fault_at, FetchItem(mailbox, i), <<>>)
    IN  IF item = <<>> THEN <<>> ELSE item \o IterFrom(mailbox, i + 1, fault_at)

\* setup_fails: get_folder, Items, Sort or Restrict raises (not under safe_call)
iter_messages(mailbox, setup_fails, fault_at) ==
    IF setup_fails THEN [raised |-> TRUE, items |-> <<>>]
    ELSE [raised |-> FALSE, items |-> IterFrom(mailbox, 1, fault_at)]

EnumIngest ==
    /\ CanRun
    /\ \E mailbox \in Batches, sent_idx \in SentIndexes, setup_fails \in BOOLEAN :
         \E fault_at \in 0..Len(mailbox) :
            LET yielded == iter_messages(mailbox, setup_fails, fault_at)
                out == IngestOutcome(yielded.items, sent_idx, 0)
            IN  /\ tickets' = IF yielded.raised THEN ensure_schema(tickets) ELSE out.tbl
                /\ ret' = [op |-> "ingest_range", raised |-> yielded.raised \/ out.raised,
                           value |-> IF yielded.raised THEN 0 ELSE out.processed,
                           mailbox |-> mailbox, yielded |-> yielded.items]
                /\ events' = events
    /\ Advance
    /\ UNCHANGED <<sheet, snap>>

EnumResponses ==
    /\ CanRun
    /\ \E mailbox \in RespBatches, setup_fails \in BOOLEAN :
         \E fault_at \in 0..Len(mailbox) :
            LET yielded == iter_messages(mailbox, setup_fails, fault_at)
                out == ProcessLoop([tbl |-> ensure_schema(tickets), evts |-> events,
                                    updated |-> 0, calls |-> 0, raised |-> FALSE],
                                   yielded.items, 1, 0, now)
            IN  /\ tickets' = IF yielded.raised THEN ensure_schema(tickets) ELSE out.tbl
                /\ events' = IF yielded.raised THEN events ELSE out.evts
                /\ ret' = [op |-> "process_responses", raised |-> yielded.raised \/ out.raised,
                           value |-> IF yielded.raised THEN 0 ELSE out.updated,
                           mailbox |-> mailbox, yielded |-> yielded.items]
    /\ Advance
    /\ UNCHANGED <<sheet, snap>>

NextEnum ==
    \/ EnumIngest
    \/ EnumResponses

SpecEnum == Init /\ [][NextEnum]_vars

(***************************************************************************)
(* Tasks of the main window (ui/app.py).  _run_task wraps the function in  *)
(* a TaskThread and starts it at once; the thread runs _send_overdue: one  *)
(* overdue_plan, then send_overdue_mail and mark_reminder_sent for each    *)
(* row of the send bucket.  ret holds each thread's position (pc), the     *)
(* ids of its send bucket and the next row k; snap counts the reminders    *)
(* sent per ticket.  One loop iteration is taken as one step.              *)
(***************************************************************************)
TaskThreads == {1, 2}

IdleThread == [pc |-> "idle", send |-> <<>>, k |-> 1]

\* _run_task: thread.start() with no test of self._threads; run() calls
\* _send_overdue, which begins with overdue_plan
RunTask(t) ==
    /\ ret.threads[t].pc = "idle"
    /\ LET plan == overdue_plan(tickets, now)
       IN  ret' = [ret EXCEPT !.threads[t] =
                      [pc |-> "running",
                       send |-> [k \in DOMAIN plan.send |-> plan.send[k].id],
                       k |-> 1]]
    /\ UNCHANGED <<tickets, events, sheet, now, snap>>

\* one iteration of `for row in plan["send"]`
SendNext(t) ==
    /\ ret.threads[t].pc = "running"
    /\ ret.threads[t].k <= Len(ret.threads[t].send)
    /\ LET id == ret.threads[t].send[ret.threads[t].k]
       IN  /\ snap' = [snap EXCEPT ![id] = @ + 1]
           /\ tickets' = [i \in 1..Len(tickets) |->
                            IF tickets[i].id = id
                            THEN mark_reminder_sent(tickets[i], now)
                            ELSE tickets[i]]
    /\ ret' = [ret EXCEPT !.threads[t].k = @ + 1]
    /\ UNCHANGED <<events, sheet, now>>

\* the loop is over: run() emits finished_ok and the thread ends
FinishTask(t) ==
    /\ ret.threads[t].pc = "running"
    /\ ret.threads[t].k > Len(ret.threads[t].send)
    /\ ret' = [ret EXCEPT !.threads[t].pc = "done"]
    /\ UNCHANGED <<tickets, events, sheet, now, snap>>

InitTasks ==
    /\ now = 60
    /\ \E s1 \in PlanStatuses, s2 \in PlanStatuses, o1 \in PlanOwners, o2 \in PlanOwners :
         tickets = <<PlanTicket(1, s1, o1, NoTime, now), PlanTicket(2, s2, o2, NoTime, now)>>
    /\ events = <<>>
    /\ sheet = NoFile
    /\ ret = [op |-> "tasks", threads |-> [t \in TaskThreads |-> IdleThread]]
    /\ snap = <<0, 0>>

NextTasks ==
    \/ \E t \in TaskThreads : RunTask(t)
    \/ \E t \in TaskThreads : SendNext(t)
    \/ \E t \in TaskThreads : FinishTask(t)

SpecTasks == InitTasks /\ [][NextTasks]_vars

(***************************************************************************)
(* Properties.  An operation is recognised in a step by the result it      *)
(* leaves in ret'; the unprimed variables are the state it started from.   *)
(***************************************************************************)
SheetRows == 1..Len(sheet.rows)

\* the rows of the sheet whose version token is a number, names a stored
\* ticket and differs from that ticket's row_version
StaleRows ==
    {i \in SheetRows :
        /\ IsNumber(sheet.rows[i].ticket_id)
        /\ IsNumber(sheet.rows[i].row_version)
        /\ sheet.rows[i].ticket_id \in 1..Len(tickets)
        /\ sheet.rows[i].row_version # tickets[sheet.rows[i].ticket_id].row_version}

ReportedConflict(res, t) ==
    \E k \in 1..Len(res.conflict_rows) : res.conflict_rows[k].ticket_id = t

\* C1: in a sync_from_excel pass that returns, every sheet row whose version
\* token differs from the row_version the store holds for that ticket is
\* counted in `conflicts` and no column of that ticket is changed.
C1_StaleRowIsConflict ==
    [][(ret'.op = "sync_from_excel" /\ sheet.exists /\ ~ret'.raised) =>
          /\ ret'.conflicts = Len(ret'.conflict_rows)
          /\ ret'.conflicts >= Cardinality(StaleRows)
          /\ \A i \in StaleRows :
                LET t == sheet.rows[i].ticket_id
                IN  /\ tickets'[t] = tickets[t]
                    /\ ReportedConflict(ret', t)]_vars

\* C1 witness: a pass has skipped a row on a row_version mismatch.
C1_Witness ==
    /\ ret.op = "sync_from_excel"
    /\ ~ret.raised
    /\ \E k \in 1..Len(ret.conflict_rows) : ret.conflict_rows[k].field = "row_version"

\* C2: every operation that changes a column of an existing ticket strictly
\* increases that ticket's row_version.
C2_MutationBumpsVersion ==
    [][\A i \in 1..Len(tickets) :
          tickets'[i] # tickets[i] => tickets'[i].row_version > tickets[i].row_version]_vars

ChangedSinceExport(t) == t \in 1..Len(snap) /\ tickets[t] # snap[t]

\* C3: a sync_from_excel pass does not overwrite the status, responsible,
\* priority or comment of a ticket that was changed in the store after its
\* sheet row was exported; it reports a conflict for that ticket.
C3_NoLostUpdate ==
    [][(ret'.op = "sync_from_excel" /\ sheet.exists) =>
          \A i \in SheetRows :
             LET t == sheet.rows[i].ticket_id
             IN  ChangedSinceExport(t) =>
                    /\ tickets'[t].status = tickets[t].status
                    /\ tickets'[t].responsible = tickets[t].responsible
                    /\ tickets'[t].priority = tickets[t].priority
                    /\ tickets'[t].comment = tickets[t].comment
                    /\ ReportedConflict(ret', t)]_vars

\* the accepted messages of a batch that belong to the thread of row r
Hits(batch, r) ==
    {k \in 1..Len(batch) :
        /\ Accepted(batch[k])
        /\ batch[k].ConversationID = r.conv_id
        /\ IngestRecord(batch[k], NoSent, 0).thread_key = r.thread_key}

\* C4: ingest_range run again over the batch it has just completed, the
\* mailbox raising nothing, completes, leaves the number of tickets as it
\* was and raises each row_version by one per message of that thread.
C4_ReingestCompletes ==
    [][(ret'.op = "ingest_range" /\ ret'.again /\ ret'.fail_at = 0) =>
          /\ ~ret'.raised
          /\ Len(tickets') = Len(tickets)
          /\ \A i \in 1..Len(tickets) :
                tickets'[i].row_version
                    = tickets[i].row_version + Cardinality(Hits(ret'.batch, tickets[i]))]_vars

\* C5: the store holds at most one row per thread (conv_id, thread_key),
\* an absent conv_id included.
C5_OneRowPerThread ==
    \A i, j \in 1..Len(tickets) :
        (tickets[i].conv_id = tickets[j].conv_id
            /\ tickets[i].thread_key = tickets[j].thread_key) => i = j

\* C6: the status of every stored ticket is one of the nine canonical codes.
C6_StatusCanonical ==
    \A i \in 1..Len(tickets) : tickets[i].status \in CanonicalStatuses

\* a response whose vote, /status argument or status phrase resolves
ResolvesStatus(msg) ==
    \/ status_text_to_code(msg.VotingResponse) # NULL
    \/ /\ "status" \in DOMAIN _parse_command_block(msg.Body)
       /\ status_text_to_code(_parse_command_block(msg.Body)["status"]) # NULL
    \/ /\ StatusPhrase(msg.Body) # NULL
       /\ status_text_to_code(StatusPhrase(msg.Body)) # NULL

TargetOf(msg) ==
    _find_ticket_for_message(tickets, msg.ConversationID,
                             StripLower(normalize_subject(msg.Subject)))

\* C7: a sheet row whose status text resolves to no code, and a response
\* whose status text resolves to no code, leave the ticket's status as it
\* was, in sync_from_excel and in process_responses alike.
C7_UnresolvedKeepsStatus ==
    [][/\ (ret'.op = "sync_from_excel" /\ sheet.exists) =>
             \A i \in SheetRows :
                LET t == sheet.rows[i].ticket_id
                IN  (/\ t \in 1..Len(tickets)
                     /\ status_text_to_code(CellStr(sheet.rows[i].status)) = NULL)
                    => tickets'[t].status = tickets[t].status
       /\ ret'.op = "process_responses" =>
             \A t \in 1..Len(tickets) :
                (\A k \in 1..Len(ret'.batch) :
                    TargetOf(ret'.batch[k]) = t => ~ResolvesStatus(ret'.batch[k]))
                => tickets'[t].status = tickets[t].status]_vars

UniqueEntryIds(evts) ==
    \A i, j \in 1..Len(evts) :
        (evts[i].item_entry_id # NULL /\ evts[i].item_entry_id = evts[j].item_entry_id)
            => i = j

\* C8: the event log holds at most one row per non-null item_entry_id, and
\* no operation changes or removes a row already logged: a log_event call
\* with an id already present inserts nothing.
C8_EventIdempotent ==
    [][/\ UniqueEntryIds(events')
       /\ Len(events') >= Len(events)
       /\ SubSeq(events', 1, Len(events)) = events]_vars

\* C8 witness: process_responses made more log_event calls than it added
\* rows, so a call with an id already present was made.
C8_Witness ==
    /\ ret.op = "process_responses"
    /\ ret.calls > ret.logged
    /\ ret.logged >= 1

AcceptedOf(batch) == {k \in 1..Len(batch) : Accepted(batch[k])}

\* C9: ingest_range is all-or-nothing: when it raises, the tickets table is
\* what it was before the run; when it returns, every accepted message of
\* the batch has its thread's row written by this run.
C9_IngestAtomic ==
    [][ret'.op = "ingest_range" =>
          IF ret'.raised
          THEN tickets' = tickets
          ELSE /\ ret'.value = Cardinality(AcceptedOf(ret'.batch))
               /\ \A k \in AcceptedOf(ret'.batch) :
                     \E i \in 1..Len(tickets') :
                        /\ Hits(<<ret'.batch[k]>>, tickets'[i]) # {}
                        /\ tickets'[i].last_updated_by = "ingest"
                        /\ tickets'[i].last_updated_at = now]_vars

\* C9 witness: a run raised after it had executed an upsert.
C9_Witness ==
    /\ ret.op = "ingest_range"
    /\ ret.raised
    /\ ret.attempted >= 1

\* C10: a recalc_open or process_responses pass that raises leaves none of
\* its updates in the tickets table.
C10_PassAtomic ==
    [][(ret'.op \in {"recalc_open", "process_responses"} /\ ret'.raised) =>
          tickets' = tickets]_vars

\* C11: a pass of ingest_range or recalc_open never lowers the status order
\* of a stored ticket (new 0 < table 1 < assigned = waiting_customer = otip 2
\* < responded 3 < overdue 4 < resolved 5 < not_interesting 6).
C11_StatusNeverRegresses ==
    [][ret'.op \in {"ingest_range", "recalc_open"} =>
          \A i \in 1..Len(tickets) :
             StatusRank(tickets'[i].status) >= StatusRank(tickets[i].status)]_vars

\* the business hours elapsed since the receipt of r at the time of the sweep
ElapsedHours(r) ==
    business_hours_between(r.first_received_utc, now, business_hours_start,
                           business_hours_end, holidays)

\* the thresholds of r's priority, those of p3 when it is unset or unknown
ThresholdsOf(r) ==
    IF r.priority \in {"p1", "p2", "p3", "p4"} THEN sla_by_priority[r.priority]
    ELSE sla_by_priority["p3"]

Swept(r) ==
    r.status \notin {STATUS_RESOLVED, STATUS_NOT_INTERESTING, STATUS_TABLE, STATUS_IN_TABLE}

FlagExpected(r) ==
    \/ r.first_reply_utc = NoTime
          /\ ElapsedHours(r) >= ThresholdsOf(r).first_response_hours
    \/ ElapsedHours(r) >= ThresholdsOf(r).resolution_hours

\* C12: a completed sweep of recalc_open gives every swept ticket that is
\* not waiting_customer the overdue flag (no first reply and E >= F) or
\* (E >= R), and the status overdue when (the flag is set and the status is
\* none of overdue, responded, assigned) or (the status is responded or
\* assigned and E >= R); otherwise the status stays.
C12_RecalcRule ==
    [][(ret'.op = "recalc_open" /\ ~ret'.raised) =>
          \A i \in 1..Len(tickets) :
             (Swept(tickets[i]) /\ tickets[i].status # STATUS_WAITING_CUSTOMER) =>
                /\ tickets'[i].overdue = FlagExpected(tickets[i])
                /\ tickets'[i].status =
                      IF \/ FlagExpected(tickets[i])
                              /\ tickets[i].status \notin
                                    {STATUS_OVERDUE, STATUS_RESPONDED, STATUS_ASSIGNED}
                         \/ tickets[i].status \in {STATUS_RESPONDED, STATUS_ASSIGNED}
                              /\ ElapsedHours(tickets[i])
                                    >= ThresholdsOf(tickets[i]).resolution_hours
                      THEN STATUS_OVERDUE
                      ELSE tickets[i].status]_vars

\* C12 witness: a sweep has escalated a responded ticket of unknown
\* priority, which had a first reply, to overdue.
C12_Witness ==
    /\ ret.op = "recalc_open"
    /\ ~ret.raised
    /\ snap[1].status = STATUS_RESPONDED
    /\ snap[1].first_reply_utc # NoTime
    /\ snap[1].priority = "p9"
    /\ tickets[1].status = STATUS_OVERDUE
    /\ tickets[1].overdue

\* C13: recalc_open never changes the status of a waiting_customer ticket
\* and leaves its overdue flag unset; a completed sweep refreshes its
\* days_without_update and counts it among the tickets touched.
C13_WaitingCustomerExempt ==
    [][ret'.op = "recalc_open" =>
          \A i \in 1..Len(tickets) :
             tickets[i].status = STATUS_WAITING_CUSTOMER =>
                /\ tickets'[i].status = STATUS_WAITING_CUSTOMER
                /\ tickets'[i].overdue => tickets[i].overdue /\ ret'.raised
                /\ ~ret'.raised =>
                      /\ ~tickets'[i].overdue
                      /\ tickets'[i].days_without_update
                            = Max(0, DateOf(now) - DateOf(tickets[i].last_status_utc))
                      /\ ret'.value = Cardinality({j \in 1..Len(tickets) :
                                                      Swept(tickets[j])})
                      /\ ret'.value >= 1]_vars

\* C13 witness: a sweep has passed over a waiting_customer ticket whose
\* elapsed business hours exceed the resolution threshold.
C13_Witness ==
    /\ ret.op = "recalc_open"
    /\ ~ret.raised
    /\ snap[1].status = STATUS_WAITING_CUSTOMER
    /\ snap[1].overdue
    /\ snap[1].priority = "p1"
    /\ now - 24 - snap[1].first_received_utc = 200
    /\ tickets[1].days_without_update > 0
    /\ ~tickets[1].overdue

\* C14: after a completed sweep a ticket with status new and no first reply
\* whose elapsed business hours reach the first-response threshold of its
\* priority is overdue with the flag set; that is the case of every p3
\* ticket received 5 days (120 hours) before the sweep, whatever the weekday
\* and hour of its receipt.
C14_NewTicketOverdue ==
    [][(ret'.op = "recalc_open" /\ ~ret'.raised) =>
          \A i \in 1..Len(tickets) :
             (tickets[i].status = STATUS_NEW /\ tickets[i].first_reply_utc = NoTime) =>
                /\ (tickets[i].priority = "p3"
                        /\ now - tickets[i].first_received_utc = 120)
                    => ElapsedHours(tickets[i]) >= 16
                /\ ElapsedHours(tickets[i]) >= ThresholdsOf(tickets[i]).first_response_hours
                    => tickets'[i].status = STATUS_OVERDUE /\ tickets'[i].overdue]_vars

\* C14 witness: a new, unreplied p3 ticket received on a Saturday was swept
\* five days later and is overdue.
C14_Witness ==
    /\ ret.op = "recalc_open"
    /\ ~ret.raised
    /\ snap[1].status = STATUS_NEW
    /\ snap[1].first_reply_utc = NoTime
    /\ snap[1].priority = "p3"
    /\ Weekday(snap[1].first_received_utc) = 5
    /\ now - 24 - snap[1].first_received_utc = 120
    /\ tickets[1].status = STATUS_OVERDUE
    /\ tickets[1].overdue

SameThread(r, t) == r.conv_id = t.conv_id /\ r.thread_key = t.thread_key

\* the columns an upsert on an existing thread replaces by the supplied value
ReplacedColumns(t) == DOMAIN t \ {"id", "first_received_utc", "row_version"}

\* C15: upsert_ticket on a ticket whose (conv_id, thread_key) is already
\* stored adds no row, keeps the stored row's id and first_received_utc and
\* replaces every other column (row_version apart) by the supplied value.
C15_UpsertFrame ==
    [][ret'.op = "upsert_ticket" =>
          \A i \in 1..Len(tickets) :
             SameThread(tickets[i], ret'.ticket) =>
                /\ Len(tickets') = Len(tickets)
                /\ tickets'[i].id = tickets[i].id
                /\ tickets'[i].first_received_utc = tickets[i].first_received_utc
                /\ \A c \in ReplacedColumns(ret'.ticket) :
                      tickets'[i][c] = ret'.ticket[c]]_vars

\* C16: an upsert_ticket call that returns gives back the id of a stored row
\* whose (conv_id, thread_key) is the argument's.
C16_UpsertReturnsId ==
    [][(ret'.op = "upsert_ticket" /\ ~ret'.raised) =>
          \E i \in 1..Len(tickets') :
             /\ SameThread(tickets'[i], ret'.ticket)
             /\ tickets'[i].id = ret'.value]_vars

\* the whole hours [h, h+1) of [start, end) that lie inside the window of a
\* Monday-Friday date that is no holiday
BusinessHoursIn(start, end, start_hour, end_hour, holiday_set) ==
    Cardinality({h \in start..(end - 1) :
                    /\ Weekday(h) < 5
                    /\ DateOf(h) \notin holiday_set
                    /\ start_hour <= h % 24
                    /\ h % 24 < end_hour})

OffDate(d, holiday_set) == d % 7 >= 5 \/ d \in holiday_set

\* C17: for 0 <= start_hour <= end_hour <= 23 and any holiday set,
\* business_hours_between is 0 when end <= start and otherwise the summed
\* overlap of [start, end] with the window of every Monday-Friday non-holiday
\* date; inside one business day it is min(end, end_hour) - max(start,
\* start_hour) clamped at 0, and 0 when every date of the span is off.
C17_BusinessHours ==
    ret.op = "business_hours_between" =>
        /\ ret.value = BusinessHoursIn(ret.start, ret.end, ret.start_hour,
                                       ret.end_hour, ret.holidays)
        /\ ret.end <= ret.start => ret.value = 0
        /\ (/\ ret.start < ret.end
            /\ DateOf(ret.start) = DateOf(ret.end)
            /\ ~OffDate(DateOf(ret.start), ret.holidays)) =>
               ret.value = Max(0, Min(ret.end % 24, ret.end_hour)
                                  - Max(ret.start % 24, ret.start_hour))
        /\ (\A d \in DateOf(ret.start)..DateOf(ret.end) : OffDate(d, ret.holidays)) =>
               ret.value = 0

\* a span from inside Thursday's window, over a holiday Friday and the
\* weekend, to inside Monday's window
C17_Witness ==
    /\ ret.op = "business_hours_between"
    /\ ret.start = 3 * 24 + 12
    /\ ret.end = 7 * 24 + 12
    /\ ret.start_hour = 10
    /\ ret.end_hour = 19
    /\ ret.holidays = {4}
    /\ ret.value = 9

\* C18: for each of the nine canonical codes c,
\* status_text_to_code(status_code_to_label(c)) = c, and no other canonical
\* code has the label of c.
C18_LabelRoundTrip ==
    ret.op = "status_text_to_code" =>
        /\ ret.value = ret.code
        /\ \A d \in CanonicalStatuses :
              status_code_to_label(d) = ret.label => d = ret.code

\* the label with a slash, which only the direct lookup resolves
C18_Witness ==
    /\ ret.op = "status_text_to_code"
    /\ ret.code = STATUS_TABLE
    /\ ret.label = "Trebuet dannyh/tablica"
    /\ ret.value = STATUS_TABLE

\* C19: derive_base_status gives not_interesting when is_uninteresting, else
\* table when requires_table, else responded when has_reply, else assigned;
\* never new; the record ingest_range builds has status assigned or responded.
C19_BaseStatus ==
    /\ ret.op = "derive_base_status" =>
          /\ ret.value = (CASE ret.is_uninteresting -> STATUS_NOT_INTERESTING
                            [] ~ret.is_uninteresting /\ ret.requires_table -> STATUS_TABLE
                            [] ~ret.is_uninteresting /\ ~ret.requires_table /\ ret.has_reply
                                  -> STATUS_RESPONDED
                            [] OTHER -> STATUS_ASSIGNED)
          /\ ret.value # STATUS_NEW
    /\ ret.op = "ingest_record" =>
          /\ ret.value.status \in {STATUS_ASSIGNED, STATUS_RESPONDED}
          /\ ret.value.status = STATUS_RESPONDED <=> ret.value.first_reply_utc # NoTime

C19_Witness ==
    /\ ret.op = "derive_base_status"
    /\ ~ret.has_forward
    /\ ~ret.has_reply
    /\ ~ret.requires_table
    /\ ~ret.is_uninteresting
    /\ ret.value = STATUS_ASSIGNED

IsSuffix(suffix, s) == \E k \in 0..Len(s) : SubSeq(s, 1, k) \o suffix = s
IsSubstring(part, s) ==
    \E i \in 1..(Len(s) + 1) : \E j \in (i - 1)..Len(s) : SubSeq(s, i, j) = part

PlanBuckets == {"send", "skip_interval", "skip_quiet", "skip_no_responsible"}

\* the <<bucket, position>> places of the plan that hold ticket r
PlacesOf(plan, r) ==
    {p \in PlanBuckets \X (1..Len(tickets)) :
        p[2] <= Len(plan[p[1]]) /\ plan[p[1]][p[2]].id = r.id}

\* the bucket the fixed order of checks assigns
DueBucket(r) ==
    CASE r.responsible \in {NULL, ""} -> "skip_no_responsible"
      [] /\ r.responsible \notin {NULL, ""}
         /\ r.last_reminder_utc # NoTime
         /\ now - r.last_reminder_utc < reminder_interval_hours -> "skip_interval"
      [] /\ r.responsible \notin {NULL, ""}
         /\ ~(r.last_reminder_utc # NoTime
              /\ now - r.last_reminder_utc < reminder_interval_hours)
         /\ (now % 24 >= quiet_hours_start \/ now % 24 < quiet_hours_end) -> "skip_quiet"
      [] OTHER -> "send"

\* C21: overdue_plan places every ticket whose status is overdue or responded
\* in exactly one bucket, once, and no other ticket anywhere; the bucket is
\* skip_no_responsible without a responsible party, else skip_interval when
\* reminded less than reminder_interval_hours ago, else skip_quiet in quiet
\* hours, else send.
C21_PlanBuckets ==
    ret.op = "overdue_plan" =>
        \A i \in 1..Len(tickets) :
           LET r == tickets[i]
               places == PlacesOf(ret.value, r)
           IN  IF r.status \in {STATUS_OVERDUE, STATUS_RESPONDED}
               THEN /\ Cardinality(places) = 1
                    /\ \A p \in places : p[1] = DueBucket(r)
               ELSE places = {}

\* an owned ticket reminded an hour ago, planned in quiet hours, next to an
\* unowned one and both selected
C21_Witness ==
    /\ ret.op = "overdue_plan"
    /\ now % 24 = 23
    /\ Len(ret.value.skip_interval) = 1
    /\ ret.value.skip_interval[1].id = 1
    /\ Len(ret.value.skip_no_responsible) = 1
    /\ ret.value.skip_no_responsible[1].last_reminder_utc = NoTime

\* the argument of directive c among the lines before the boundary
HeadArg(head, c) ==
    LET at == {i \in 1..Len(head) : head[i].cmd = c}
    IN  IF at = {} THEN NULL ELSE head[CHOOSE i \in at : \A j \in at : j <= i].arg

\* the status code the vote or else the /status directive resolves to
DirectedStatus(vote, head) ==
    IF status_text_to_code(vote) # NULL THEN status_text_to_code(vote)
    ELSE status_text_to_code(HeadArg(head, "status"))

DirectedOwner(head) ==
    IF HeadArg(head, "owner") # NULL THEN HeadArg(head, "owner")
    ELSE HeadArg(head, "responsible")

DirectedPriority(head) ==
    IF HeadArg(head, "prio") # NULL THEN HeadArg(head, "prio")
    ELSE HeadArg(head, "priority")

\* C22: the status process_responses applies comes from the vote or from a
\* directive before the first blank or quoted line; what follows that
\* boundary never influences the ticket's status.
C22_TailIgnored ==
    [][ret'.op = "process_responses" =>
          tickets'[1].status =
             IF ret'.conv = tickets[1].conv_id /\ DirectedStatus(ret'.vote, ret'.head) # NULL
             THEN DirectedStatus(ret'.vote, ret'.head)
             ELSE tickets[1].status]_vars

EventsOf(entry_id, type) ==
    {k \in 1..Len(events) :
        events[k].item_entry_id = entry_id /\ events[k].event_type = type}

\* C23: a matched message with a status, owner or priority directive and a
\* /comment directive leaves one mail_response event and one comment event
\* of its entry id in the log, also after being processed again.
C23_TwoEvents ==
    (/\ ret.op = "process_responses"
     /\ ret.conv = tickets[1].conv_id
     /\ HeadArg(ret.head, "comment") # NULL
     /\ \/ DirectedStatus(ret.vote, ret.head) # NULL
        \/ DirectedOwner(ret.head) # NULL
        \/ DirectedPriority(ret.head) # NULL) =>
        /\ Cardinality(EventsOf(ret.batch[1].EntryID, "mail_response")) = 1
        /\ Cardinality(EventsOf(ret.batch[1].EntryID, "comment")) = 1

\* C24: a matched message with a resolvable vote or /status sets that
\* status, days_without_update 0, overdue false and row_version + 1; one with
\* only owner and/or priority directives sets those fields and row_version
\* + 1 and keeps status, days_without_update and overdue; one with no
\* matching ticket or no vote/status/owner/priority changes nothing and is
\* not counted.
C24_ResponseUpdate ==
    [][ret'.op = "process_responses" =>
          LET old == tickets[1]
              new == tickets'[1]
              matched == ret'.conv = old.conv_id
              status == DirectedStatus(ret'.vote, ret'.head)
              owner == DirectedOwner(ret'.head)
              priority == DirectedPriority(ret'.head)
              silent == /\ ret'.vote = ""
                        /\ HeadArg(ret'.head, "status") = NULL
          IN  /\ (matched /\ status # NULL) =>
                    /\ new.status = status
                    /\ new.days_without_update = 0
                    /\ new.overdue = FALSE
                    /\ new.row_version = old.row_version + 1
                    /\ ret'.value = 1
              /\ (matched /\ silent /\ (owner # NULL \/ priority # NULL)) =>
                    /\ owner # NULL => new.responsible = owner
                    /\ priority # NULL => new.priority = priority
                    /\ new.row_version = old.row_version + 1
                    /\ new.status = old.status
                    /\ new.days_without_update = old.days_without_update
                    /\ new.overdue = old.overdue
              /\ (~matched \/ (silent /\ owner = NULL /\ priority = NULL)) =>
                    /\ tickets' = tickets
                    /\ events' = events
                    /\ ret'.value = 0]_vars

\* C25: when replacing the target fails on a lock, the export does not
\* raise; it returns the _pending path, the sidecar holds the new workbook,
\* the target is unchanged and no temporary file remains.
C25_PendingFallback ==
    [][(ret'.op = "_atomic_replace" /\ ret'.replace_failed) =>
          /\ ~ret'.raised
          /\ ret'.value = "pending"
          /\ sheet'.pending = ret'.workbook
          /\ sheet'.target = sheet.target
          /\ sheet'.tmp = NoWorkbook]_vars

\* the sheet rows with a numeric ticket identity
IdentifiedRows == {i \in 1..Len(sheet.rows) : sheet.rows[i].ticket_id # BlankNum}

\* the identified rows whose version token is blank or not a number
CorruptRows == {i \in IdentifiedRows : sheet.rows[i].row_version = BlankNum}

StoredIds == {snap[j].id : j \in 1..Len(snap)}

\* C26: sync_from_excel returns updated + conflicts + missing = the number of
\* rows with a numeric ticket identity; an identity without a store row is
\* counted as missing and changes nothing; the conflict list has one entry of
\* five fields per counted conflict.
C26_SyncAccounting ==
    ret.op = "sync_from_excel" =>
        /\ ~ret.raised
        /\ ret.updated + ret.conflicts + ret.missing = Cardinality(IdentifiedRows)
        /\ ret.missing = Cardinality({i \in IdentifiedRows :
                                         sheet.rows[i].ticket_id \notin StoredIds})
        /\ Len(tickets) = Len(snap)
        /\ \A j \in 1..Len(snap) :
              (\A i \in IdentifiedRows : sheet.rows[i].ticket_id # snap[j].id) =>
                 tickets[j] = snap[j]
        /\ Len(ret.conflict_rows) = ret.conflicts
        /\ \A k \in 1..Len(ret.conflict_rows) :
              DOMAIN ret.conflict_rows[k] = {"ticket_id", "field", "excel", "db", "resolution"}

\* C27: on a sheet with a row whose version token is corrupt, the pass
\* returns its counts, that row is not applied, and the other identified
\* rows are processed and counted.
C27_CorruptRowSkipped ==
    (ret.op = "sync_from_excel" /\ CorruptRows # {}) =>
        /\ ~ret.raised
        /\ ret.updated + ret.conflicts + ret.missing
              = Cardinality(IdentifiedRows \ CorruptRows)
        /\ \A j \in 1..Len(snap) :
              (\A i \in IdentifiedRows \ CorruptRows :
                  sheet.rows[i].ticket_id # snap[j].id) => tickets[j] = snap[j]

SendOps == {"send_mail", "reply_overdue", "send_overdue_mail", "_send_confirmation"}

Transmits(calls) == \E k \in 1..Len(calls) : calls[k] = "Send"

\* C28: with safe_mode true or allow_send false, send_mail, reply_overdue,
\* send_overdue_mail and the confirmation reply make no Send call, only
\* Display or a preview; a Send call is made only with safe_mode false,
\* allow_send true and no safe_only/preview request.
C28_NoSendWhenSafe ==
    ret.op \in SendOps =>
        /\ (ret.cfg.safe_mode \/ ~ret.cfg.allow_send) =>
              \A k \in 1..Len(ret.value) : ret.value[k] \in {"Display", "Preview"}
        /\ Transmits(ret.value) =>
              ~ret.cfg.safe_mode /\ ret.cfg.allow_send /\ ~ret.preview

\* sending switched off outside safe mode: the mail is displayed
C28_Witness ==
    /\ ret.op = "send_mail"
    /\ ~ret.cfg.safe_mode
    /\ ~ret.cfg.allow_send
    /\ ~ret.preview
    /\ ret.value = <<"Display">>

SweepColumns(t) ==
    <<t.status, t.overdue, t.days_without_update, t.last_status_utc>>

\* C29: when update_recommendations raises, recalc_open does not fail: it
\* returns the number of tickets the sweep touched, and every ticket keeps
\* the status, overdue flag, days count and status time the sweep gave it.
C29_EnrichmentFailureContained ==
    (ret.op = "recalc_open" /\ snap.enrichment = "raise") =>
        LET tbl == ensure_schema(snap.before)
            n == Cardinality(RecalcSelected(tbl))
            swept == RecalcSweep(tbl, n, snap.utcnow)
        IN  /\ ~ret.raised
            /\ ret.value = n
            /\ Len(tickets) = Len(swept)
            /\ \A i \in 1..Len(tickets) :
                  SweepColumns(tickets[i]) = SweepColumns(swept[i])

\* the enrichment raised after marking one of two similar tickets, and the
\* sweep had made a ticket overdue
C29_Witness ==
    /\ ret.op = "recalc_open"
    /\ snap.enrichment = "raise"
    /\ ret.value = 2
    /\ \E i \in 1..Len(tickets) : tickets[i].is_repeat
    /\ \E i \in 1..Len(tickets) : ~tickets[i].is_repeat
    /\ \E i \in 1..Len(tickets) :
          tickets[i].status = STATUS_OVERDUE /\ snap.before[i].status = STATUS_NEW

ClientSteps == {"ingest_range", "process_responses", "send_overdue_mail"}

\* C30: every step that acquires the mail client releases it on every exit
\* path, so each step makes as many COM teardowns as initialisations and
\* the two counts stay equal over any sequence of steps.
C30_ClientReleased ==
    ret.op \in ClientSteps =>
        /\ ret.inits = ret.teardowns
        /\ snap.inits = snap.teardowns

\* the value a cell stands for: a blank cell is no value
CellValue(v) == IF v = "" THEN NULL ELSE v

TerminalStatuses == {STATUS_RESOLVED, STATUS_TABLE, STATUS_NOT_INTERESTING}

\* the one row of the sheet matches a stored ticket's version, carries a
\* known status label, and the store is not newer than the sheet
RowApplies ==
    /\ sheet.exists
    /\ Len(sheet.rows) = 1
    /\ sheet.rows[1].ticket_id \in StoredIds
    /\ sheet.rows[1].row_version = snap[sheet.rows[1].ticket_id].row_version
    /\ status_text_to_code(sheet.rows[1].status) # NULL
    /\ snap[sheet.rows[1].ticket_id].last_updated_at <= sheet.rows[1].last_updated_at

\* C31: a row whose version token equals the store's row_version, the store
\* not being newer, sets the ticket's status to the code of the row's label
\* and its responsible, priority and comment to the row's values, raises
\* row_version by 1, clears overdue exactly when the new status is resolved,
\* table or not_interesting, and is counted as updated.
C31_RowApplied ==
    (ret.op = "sync_from_excel" /\ RowApplies) =>
        LET row == sheet.rows[1]
            old == snap[row.ticket_id]
            new == tickets[row.ticket_id]
        IN  /\ new.status = status_text_to_code(row.status)
            /\ new.responsible = CellValue(row.responsible)
            /\ new.priority = CellValue(row.priority)
            /\ new.comment = CellValue(row.comment)
            /\ new.row_version = old.row_version + 1
            /\ new.overdue = (old.overdue /\ new.status \notin TerminalStatuses)
            /\ ret.updated = 1

\* as in an exported sheet, no two rows name the same ticket
OneRowPerTicket ==
    \A i \in 1..Len(sheet.rows), j \in 1..Len(sheet.rows) :
       i # j => sheet.rows[i].ticket_id # sheet.rows[j].ticket_id

\* C32: a pass of sync_from_excel over a file (one row per ticket) that an
\* earlier pass has already read applies no row: it changes no ticket,
\* counts nothing as updated, and reports as conflicts at least the rows the
\* earlier pass applied.
C32_AppliedOnce ==
    [][(ret.op = "sync_from_excel" /\ ret'.op = "sync_from_excel" /\ OneRowPerTicket) =>
          /\ tickets' = tickets
          /\ ret'.updated = 0
          /\ ret'.conflicts >= ret.updated]_vars

\* a second pass met, as conflicts, the two rows the first pass applied to
\* rows whose update stamp is blank
C32_Witness ==
    /\ ret.op = "sync_from_excel"
    /\ ret.updated = 0
    /\ ret.conflicts = 2
    /\ \A j \in 1..Len(tickets) : tickets[j].last_updated_by = "excel"
    /\ \A i \in 1..Len(sheet.rows) : sheet.rows[i].last_updated_at = NoTime

\* C33: a plan computed less than reminder_interval_hours after
\* mark_reminder_sent ran for a ticket does not hold that ticket in its
\* send bucket, whatever passes ran in between.
C33_ReminderThrottle ==
    ret.op = "send_overdue" =>
        \A m \in DOMAIN ret.marks, k \in DOMAIN ret.plan.send :
           ret.at < ret.marks[m].at + reminder_interval_hours
              => ret.plan.send[k].id # ret.marks[m].id

\* C34: tasks do not overlap: at most one task thread is running at a time,
\* and no ticket gets a second reminder from a task that planned before the
\* first one was recorded.
C34_TasksSerial ==
    ret.op = "tasks" =>
        /\ Cardinality({t \in TaskThreads : ret.threads[t].pc = "running"}) <= 1
        /\ \A id \in DOMAIN snap : snap[id] <= 1

\* C35: a pass of ingest_range or process_responses that returns has been
\* given every message of the window by iter_messages: a failing fetch
\* makes the pass raise, never end the enumeration early.
C35_EnumerationComplete ==
    (ret.op \in {"ingest_range", "process_responses"} /\ ~ret.raised) =>
        ret.yielded = ret.mailbox

\* C36: is_quiet_hours is true exactly for the hours of the half-open
\* circular window from start to end: start <= h < end when start < end,
\* h >= start or h < end when start > end, and no hour when start = end.
C36_QuietWindow ==
    ret.op = "is_quiet_hours" =>
        ret.value = (IF ret.start < ret.end
                     THEN ret.start <= ret.hour /\ ret.hour < ret.end
                     ELSE IF ret.start > ret.end
                     THEN ret.hour >= ret.start \/ ret.hour < ret.end
                     ELSE FALSE)

\* the columns update_recommendations rewrites, for tickets of every status
EnrichmentFrame(before, after) == after = [before EXCEPT !.is_repeat = after.is_repeat]

\* the days and the flag a completed sweep leaves on a swept ticket
SweepUpdates(before, after) ==
    /\ after.days_without_update = Max(0, DateOf(now) - DateOf(before.last_status_utc))
    /\ after.overdue = IF before.status = STATUS_WAITING_CUSTOMER THEN FALSE
                       ELSE FlagExpected(before)

ExcludedStatuses == {STATUS_RESOLVED, STATUS_NOT_INTERESTING, STATUS_TABLE}

C38_FlaggedPlanned ==
    ret.op = "overdue_plan" =>
        \A i \in 1..Len(tickets) :
           (Swept(snap[i]) /\ tickets[i].overdue) =>
               Cardinality(PlacesOf(ret.value, tickets[i])) = 1
\* the columns a response can set, and the version
ResponseColumns(t) == <<t.status, t.responsible, t.priority, t.overdue, t.row_version>>

\* C39: a pass of process_responses over a message an earlier pass has
\* already processed changes no ticket (status, responsible, priority,
\* overdue flag and row_version stay), adds no event and counts nothing.
C39_RedeliveryHarmless ==
    [][(ret.op = "process_responses" /\ ret.round = 1 /\ ret.value = 1
          /\ ret'.op = "process_responses" /\ ret'.round = 2) =>
          /\ Len(tickets') = Len(tickets)
          /\ \A i \in 1..Len(tickets) :
                ResponseColumns(tickets'[i]) = ResponseColumns(tickets[i])
          /\ events' = events
          /\ ret'.value = 0]_vars
\* C40: a sweep of recalc_open that leaves a ticket's status as it was
\* leaves its last_status_utc as it was too, and the days_without_update it
\* writes is the number of whole days from the ticket's last real change of
\* status to the sweep, over any number of consecutive sweeps.
C40_StatusClock ==
    [][(ret'.op = "recalc_open" /\ ~ret'.raised) =>
          \A i \in 1..Len(tickets) :
             (Swept(tickets[i]) /\ tickets'[i].status = tickets[i].status) =>
                /\ tickets'[i].last_status_utc = tickets[i].last_status_utc
                /\ tickets'[i].days_without_update = DateOf(now) - DateOf(snap[i])]_vars
====
